---- MODULE Spec2Model ----
(***************************************************************************)
(* Order print templates of the bakery order tool.                         *)
(*                                                                         *)
(* Two pages share one localStorage slot ('orderPrintTemplate'):           *)
(*   - the designer (designer.js, src/unnamed/part_000) edits, saves and   *)
(*     resets the template and renders a preview of it (renderPreview);    *)
(*   - the app (app.js, src/unnamed/part_001) renders every printed order  *)
(*     with the stored template (getTemplate, renderOrderForPrint).        *)
(* The app also lists the orders it fetches from GET /api/orders           *)
(* (api/orders.js, which joins two tables of the upstream service): they   *)
(* are filtered, sorted, selected, opened in a modal and printed.          *)
(*                                                                         *)
(* Strings.  A JavaScript string is modelled as a sequence of units.  A    *)
(* unit is a TLA+ string: one character, or a run of characters that the   *)
(* code never looks into (a run holds no brace, and inside a template it   *)
(* neither starts nor ends with white space), so the two regular           *)
(* expressions and trim() see a run exactly as they see one ordinary       *)
(* character.  Join gives the JavaScript string a sequence stands for.     *)
(***************************************************************************)
EXTENDS Integers, Sequences, FiniteSets, TLC

VARIABLES
    stored,        \* localStorage.getItem('orderPrintTemplate'): Null or a string
    editorValue,   \* designer: editor.getValue(); Null while editor is null
    sampleOrder,   \* designer: let sampleOrder (Null until a fetch sets it)
    orders,        \* app: let allOrders, the body of the last GET /api/orders
    surface,       \* which renderer is running or ran last: "none", "print", "preview"
    order,         \* the order record the running renderer works on
    pc,            \* position of the renderer: "idle", "cond", "subst", "done", "threw"
    html,          \* let html of renderOrderForPrint / renderPreview
    fetchPc,       \* designer: fetchSampleOrder is at "none", "sent", "json" or "done"
    response,      \* designer: what the fetch of /api/orders has come back with
    fieldsList,    \* designer: the entries populateFieldsList put into #fieldsList
    filteredOrders, \* app: let filteredOrders
    selectedIds,   \* app: let selectedIds, a set of String(_RowNumber)
    filters,       \* app: the values of the filter inputs and the chip
    sortAsc,       \* app: let sortAsc
    modalCurrentId, \* app: let modalCurrentId: Null, or the id as a string value
    inFlight,      \* app: the calls of fetchOrders that wait at one of their awaits
    dom,           \* app: what the page shows (#ordersList, buttons, options)
    printContainer, \* app: the markup of the orders in #printContainer
    server         \* api/orders.js: the request and what the two Find calls return

\* the state of the designer page beside its editor and sample order
designerVars == <<fetchPc, response, fieldsList>>

\* the state of the app page beside allOrders, which is the variable orders
appVars == <<filteredOrders, selectedIds, filters, sortAsc, modalCurrentId,
             inFlight, dom, printContainer>>

vars == <<stored, editorValue, sampleOrder, orders, surface, order, pc, html,
          designerVars, appVars, server>>

-----------------------------------------------------------------------------
(* Bounds of the model *)

\* numeric field values range over 0..MaxNum
MaxNum == 2
\* a template typed into the editor is a concatenation of at most MaxParts parts
MaxParts == 3
\* templates of the persistence specification have at most MaxStoreParts parts
MaxStoreParts == 1
\* a line-item list of the table specification has at most MaxItems entries
MaxItems == 2
\* a placeholder key is padded with at most MaxPad white-space characters on
\* either side
MaxPad == 2
\* at most MaxFetches calls of fetchOrders wait for the server at a time
MaxFetches == 2
\* a table of the upstream service has at most MaxRows rows
MaxRows == 2

-----------------------------------------------------------------------------
(* JavaScript strings *)

RECURSIVE Join(_)
Join(s) == IF s = <<>> THEN "" ELSE Head(s) \o Join(Tail(s))

\* the concatenation of ss[lo], ..., ss[hi]
RECURSIVE ConcatRange(_, _, _)
ConcatRange(ss, lo, hi) ==
    IF lo > hi THEN <<>>
    ELSE IF lo = hi THEN ss[lo]
    ELSE LET mid == (lo + hi) \div 2
         IN  ConcatRange(ss, lo, mid) \o ConcatRange(ss, mid + 1, hi)

ConcatAll(ss) == ConcatRange(ss, 1, Len(ss))

MinOf(S) == CHOOSE x \in S : \A y \in S : x <= y

\* s has the units of p at positions i .. i+Len(p)-1
StartsWithAt(s, i, p) ==
    /\ i + Len(p) - 1 <= Len(s)
    /\ \A k \in 1..Len(p) : s[i + k - 1] = p[k]

WhiteSpace == {" ", "\n", "\t"}

\* String.prototype.trim
RECURSIVE TrimLeft(_)
TrimLeft(s) ==
    IF s # <<>> /\ Head(s) \in WhiteSpace THEN TrimLeft(Tail(s)) ELSE s

RECURSIVE TrimRight(_)
TrimRight(s) ==
    IF s # <<>> /\ s[Len(s)] \in WhiteSpace
    THEN TrimRight(SubSeq(s, 1, Len(s) - 1)) ELSE s

Trim(s) == TrimRight(TrimLeft(s))

\* String.prototype.replace(/c/g, r) for a one-character pattern c
ReplaceAll(s, c, r) ==
    ConcatAll([k \in 1..Len(s) |-> IF s[k] = c THEN r ELSE <<s[k]>>])

-----------------------------------------------------------------------------
(* JavaScript values of an order record (parsed JSON) *)

NoValue == [t |-> "undef"]          \* undefined: a missing property
Null == [t |-> "null"]
StrV(s) == [t |-> "str", s |-> s]
NumV(n) == [t |-> "num", n |-> n]
ListV(items) == [t |-> "list", items |-> items]
ObjV(f) == [t |-> "obj", f |-> f]
\* an order record: its fields f and, in keys, the order Object.keys lists them
ObjK(keys, f) == [t |-> "obj", f |-> f, keys |-> keys]
\* Object.prototype.constructor, which every parsed record inherits
ObjectConstructor == [t |-> "func"]

Digit == <<"0", "1", "2", "3", "4", "5", "6", "7", "8", "9">>

\* Number.prototype.toString for a natural number
RECURSIVE NumToString(_)
NumToString(n) ==
    IF n < 10 THEN <<Digit[n + 1]>>
    ELSE NumToString(n \div 10) \o <<Digit[(n % 10) + 1]>>

\* ToBoolean
Truthy(v) ==
    CASE v.t = "undef" -> FALSE
      [] v.t = "null" -> FALSE
      [] v.t = "str" -> v.s # <<>>
      [] v.t = "num" -> v.n # 0
      [] OTHER -> TRUE

\* String(v) of an element of an array inside Array.prototype.join
ElemToString(v) ==
    CASE v.t \in {"undef", "null"} -> <<>>
      [] v.t = "str" -> v.s
      [] v.t = "num" -> NumToString(v.n)
      [] OTHER -> <<"[object Object]">>

RECURSIVE JoinElems(_)
JoinElems(items) ==
    IF items = <<>> THEN <<>>
    ELSE IF Len(items) = 1 THEN ElemToString(items[1])
    ELSE ElemToString(items[1]) \o <<",">> \o JoinElems(Tail(items))

\* String(v)
JsString(v) ==
    CASE v.t = "undef" -> <<"undefined">>
      [] v.t = "null" -> <<"null">>
      [] v.t = "str" -> v.s
      [] v.t = "num" -> NumToString(v.n)
      [] v.t = "list" -> JoinElems(v.items)
      [] v.t = "obj" -> <<"[object Object]">>
      [] OTHER -> <<"function Object()", " ", "{", " ", "[native code]", " ", "}">>

\* a ?? b
Nullish(v, d) == IF v.t \in {"undef", "null"} THEN d ELSE v

\* a || b
OrElse(v, d) == IF Truthy(v) THEN v ELSE d

\* names every object inherits from Object.prototype
InheritedKeys == {"constructor"}

\* o[k] for an order record or line item o (its own fields, then the prototype)
\* and a property name k; a number or a string item has no such field
Get(o, k) ==
    IF o.t = "obj" /\ k \in DOMAIN o.f THEN o.f[k]
    ELSE IF o.t \in {"obj", "list"} /\ k \in InheritedKeys THEN ObjectConstructor
    ELSE NoValue

-----------------------------------------------------------------------------
(* escHtml: app.js and designer.js each carry their own copy *)

\* app_escHtml as it would be with the ampersand replaced last
app_escHtml_ampersandLast(v) ==
    LET s0 == JsString(v)
        s1 == ReplaceAll(s0, "<", <<"&", "l", "t", ";">>)
        s2 == ReplaceAll(s1, ">", <<"&", "g", "t", ";">>)
        s3 == ReplaceAll(s2, "\"", <<"&", "q", "u", "o", "t", ";">>)
    IN  ReplaceAll(s3, "&", <<"&", "a", "m", "p", ";">>)

app_escHtml(v) ==
    LET s0 == JsString(v)
        s1 == ReplaceAll(s0, "&", <<"&", "a", "m", "p", ";">>)
        s2 == ReplaceAll(s1, "<", <<"&", "l", "t", ";">>)
        s3 == ReplaceAll(s2, ">", <<"&", "g", "t", ";">>)
    IN  ReplaceAll(s3, "\"", <<"&", "q", "u", "o", "t", ";">>)

designer_escHtml(v) ==
    LET s0 == JsString(v)
        s1 == ReplaceAll(s0, "&", <<"&", "a", "m", "p", ";">>)
        s2 == ReplaceAll(s1, "<", <<"&", "l", "t", ";">>)
        s3 == ReplaceAll(s2, ">", <<"&", "g", "t", ";">>)
    IN  ReplaceAll(s3, "\"", <<"&", "q", "u", "o", "t", ";">>)

-----------------------------------------------------------------------------
(* Results of code that may throw *)

Returned(s) == [threw |-> FALSE, out |-> s]
Thrown == [threw |-> TRUE, out |-> <<>>]

\* reading a property of null or undefined raises a TypeError
ReadThrows(o) == o.t \in {"undef", "null"}

\* the results rs of the callbacks of one map/replace call, concatenated;
\* the call throws as soon as one callback throws
Collect(rs) ==
    IF \E k \in 1..Len(rs) : rs[k].threw THEN Thrown
    ELSE Returned(ConcatAll([k \in 1..Len(rs) |-> rs[k].out]))

-----------------------------------------------------------------------------
(* buildLineItemsTable, app.js *)

NoLineItems ==
    <<"<p style=\"color:#666;font-style:italic;font-size:10pt;\">No line items.</p>">>

TableHead ==
    <<"<table class=\"slip-items-table\">\n    <thead>\n      <tr>\n        <th class=\"slip-check-cell\"></th>\n        <th class=\"slip-detail-cell\">Order Details</th>\n        <th class=\"slip-qty-cell\">Qty</th>\n      </tr>\n    </thead>\n    <tbody>">>

TableFoot == <<"</tbody>\n  </table>">>

RowOpen ==
    <<"<tr>\n      <td class=\"slip-check-cell\"></td>\n      <td class=\"slip-detail-cell\">">>

RowMid == <<"</td>\n      <td class=\"slip-qty-cell\">">>

RowClose == <<"</td>\n    </tr>">>

\* app_subLine as it would be if it asked whether the item has the field
app_subLine_whenPresent(item, field, label) ==
    IF Get(item, field) # NoValue
    THEN <<"<div class=\"slip-sub\">" \o label \o ": ">>
            \o app_escHtml(Get(item, field)) \o <<"</div>">>
    ELSE <<>>

\* one sub-line of the detail cell: item[field] ? `<div ...>Label: ${escHtml(item[field])}</div>` : ''
app_subLine(item, field, label) ==
    IF Truthy(Get(item, field))
    THEN <<"<div class=\"slip-sub\">" \o label \o ": ">>
            \o app_escHtml(Get(item, field)) \o <<"</div>">>
    ELSE <<>>

\* the callback of items.map in app.js
app_tableRow(item) ==
    IF ReadThrows(item) THEN Thrown
    ELSE
    LET product == app_escHtml(StrV(JsString(
                       OrElse(Get(item, "Product Description"), StrV(<<>>)))))
        subLines == app_subLine(item, "Writing Notes", "Writing")
                    \o app_subLine(item, "Color", "Color")
                    \o app_subLine(item, "Add-Ons", "Add-Ons")
                    \o app_subLine(item, "Line Item Notes", "Notes")
        qty == app_escHtml(StrV(JsString(OrElse(Get(item, "CakeQty"), StrV(<<>>)))))
    IN  Returned(RowOpen \o product \o subLines \o RowMid \o qty \o RowClose)

app_buildLineItemsTable(o) ==
    LET items == Get(o, "Line Items") IN
    IF ~Truthy(items) \/ items.t # "list" \/ Len(items.items) = 0
    THEN Returned(NoLineItems)
    ELSE LET rows == Collect([k \in 1..Len(items.items) |-> app_tableRow(items.items[k])])
         IN  IF rows.threw THEN Thrown
             ELSE Returned(TableHead \o rows.out \o TableFoot)

-----------------------------------------------------------------------------
(* buildLineItemsTable, designer.js *)

\* designer_tableRow as it would be with Product tried before Product Name
designer_tableRow_productFirst(item) ==
    IF ReadThrows(item) THEN Thrown
    ELSE
    LET product == OrElse(Get(item, "Product"),
                   OrElse(Get(item, "Product Name"),
                   OrElse(Get(item, "Item"),
                   OrElse(Get(item, "Order Details"),
                   OrElse(Get(item, "Description"), StrV(<<>>))))))
        qty == OrElse(Get(item, "Qty"),
               OrElse(Get(item, "Quantity"),
               OrElse(Get(item, "QTY"), StrV(<<>>))))
    IN  Returned(RowOpen \o designer_escHtml(StrV(JsString(product)))
                 \o RowMid \o designer_escHtml(StrV(JsString(qty))) \o RowClose)

\* the callback of items.map in designer.js
designer_tableRow(item) ==
    IF ReadThrows(item) THEN Thrown
    ELSE
    LET product == OrElse(Get(item, "Product Name"),
                   OrElse(Get(item, "Product"),
                   OrElse(Get(item, "Item"),
                   OrElse(Get(item, "Order Details"),
                   OrElse(Get(item, "Description"), StrV(<<>>))))))
        qty == OrElse(Get(item, "Qty"),
               OrElse(Get(item, "Quantity"),
               OrElse(Get(item, "QTY"), StrV(<<>>))))
    IN  Returned(RowOpen \o designer_escHtml(StrV(JsString(product)))
                 \o RowMid \o designer_escHtml(StrV(JsString(qty))) \o RowClose)

designer_buildLineItemsTable(o) ==
    LET items == Get(o, "Line Items") IN
    IF ~Truthy(items) \/ items.t # "list" \/ Len(items.items) = 0
    THEN Returned(NoLineItems)
    ELSE LET rows == Collect([k \in 1..Len(items.items) |-> designer_tableRow(items.items[k])])
         IN  IF rows.threw THEN Thrown
             ELSE Returned(TableHead \o rows.out \o TableFoot)

-----------------------------------------------------------------------------
(* The two regular expressions of the renderers *)

\* index of the first "}" at or after i; Len(s) + 1 when there is none
RunEnd(s, i) ==
    LET c == {j \in i..Len(s) : s[j] = "}"}
    IN  IF c = {} THEN Len(s) + 1 ELSE MinOf(c)

NoMatch == [m |-> FALSE]

\* a match of /\{\{#([^}]+)\}\}([\s\S]*?)\{\{\/\1\}\}/ that starts at i:
\* the name runs up to the first "}", the interior up to the first closing
\* tag that repeats the name unit for unit (the backreference \1)
BlockMatchAt(s, i) ==
    IF ~StartsWithAt(s, i, <<"{", "{", "#">>) THEN NoMatch
    ELSE LET j == RunEnd(s, i + 3) IN
         IF j = i + 3 \/ ~StartsWithAt(s, j, <<"}", "}">>) THEN NoMatch
         ELSE LET key == SubSeq(s, i + 3, j - 1)
                  close == <<"{", "{", "/">> \o key \o <<"}", "}">>
                  ks == {k \in (j + 2)..Len(s) : StartsWithAt(s, k, close)}
              IN  IF ks = {} THEN NoMatch
                  ELSE [m |-> TRUE, key |-> key,
                        content |-> SubSeq(s, j + 2, MinOf(ks) - 1),
                        next |-> MinOf(ks) + Len(close)]

\* a match of /\{\{([^}]+)\}\}/ that starts at i
PlaceholderMatchAt(s, i) ==
    IF ~StartsWithAt(s, i, <<"{", "{">>) THEN NoMatch
    ELSE LET j == RunEnd(s, i + 2) IN
         IF j = i + 2 \/ ~StartsWithAt(s, j, <<"}", "}">>) THEN NoMatch
         ELSE [m |-> TRUE, key |-> SubSeq(s, i + 2, j - 1), next |-> j + 2]

\* String.prototype.replace with the g flag scans left to right and resumes
\* after each match: the scan of s from i on, as the matches in order, each
\* preceded by the text it skipped (lit), and the text after the last match
RECURSIVE BlockScan(_, _)
BlockScan(s, i) ==
    LET starts == {j \in i..Len(s) : BlockMatchAt(s, j).m} IN
    IF starts = {} THEN <<[m |-> FALSE, lit |-> SubSeq(s, i, Len(s))]>>
    ELSE LET j == MinOf(starts)
             mt == BlockMatchAt(s, j)
         IN  <<[m |-> FALSE, lit |-> SubSeq(s, i, j - 1)], mt>> \o BlockScan(s, mt.next)

RECURSIVE PlaceholderScan(_, _)
PlaceholderScan(s, i) ==
    LET starts == {j \in i..Len(s) : PlaceholderMatchAt(s, j).m} IN
    IF starts = {} THEN <<[m |-> FALSE, lit |-> SubSeq(s, i, Len(s))]>>
    ELSE LET j == MinOf(starts)
             mt == PlaceholderMatchAt(s, j)
         IN  <<[m |-> FALSE, lit |-> SubSeq(s, i, j - 1)], mt>>
                \o PlaceholderScan(s, mt.next)

-----------------------------------------------------------------------------
(* renderOrderForPrint, app.js *)

\* (_, key) => { const k = key.trim(); ... }; date is new Date().toLocaleDateString()
\* app_placeholderCallback as it would be if the key were trimmed for the
\* lookup only
app_placeholderCallback_rawCompare(o, key, date) ==
    LET k == Join(Trim(key)) IN
    IF Join(key) = "LINE_ITEMS_TABLE" THEN app_buildLineItemsTable(o)
    ELSE IF Join(key) = "PRINT_DATE" THEN Returned(date)
    ELSE Returned(app_escHtml(StrV(JsString(Nullish(Get(o, k), StrV(<<>>))))))

app_placeholderCallback(o, key, date) ==
    LET k == Join(Trim(key)) IN
    IF k = "LINE_ITEMS_TABLE" THEN app_buildLineItemsTable(o)
    ELSE IF k = "PRINT_DATE" THEN Returned(date)
    ELSE Returned(app_escHtml(StrV(JsString(Nullish(Get(o, k), StrV(<<>>))))))

\* html.replace(/\{\{([^}]+)\}\}/g, callback)
app_replacePlaceholders(s, o, date) ==
    LET sc == PlaceholderScan(s, 1)
    IN  Collect([k \in 1..Len(sc) |->
            IF sc[k].m THEN app_placeholderCallback(o, sc[k].key, date)
            ELSE Returned(sc[k].lit)])

\* (_, key, content) => { const val = order[key.trim()];
\*                        return (val && String(val).trim()) ? content : ''; }
app_blockCallback(o, key, content) ==
    LET val == Get(o, Join(Trim(key)))
    IN  IF Truthy(val) /\ Trim(JsString(val)) # <<>> THEN content ELSE <<>>

\* app_replaceBlocks as it would be if the placeholders were substituted
\* before the blocks are resolved
app_replaceBlocks_placeholdersFirst(s, o) ==
    LET early == app_replacePlaceholders(s, o, <<"11/2/2026">>).out
        sc == BlockScan(early, 1)
    IN  ConcatAll([k \in 1..Len(sc) |->
            IF sc[k].m THEN app_blockCallback(o, sc[k].key, sc[k].content)
            ELSE sc[k].lit])

\* html.replace(/\{\{#([^}]+)\}\}([\s\S]*?)\{\{\/\1\}\}/g, callback)
app_replaceBlocks(s, o) ==
    LET sc == BlockScan(s, 1)
    IN  ConcatAll([k \in 1..Len(sc) |->
            IF sc[k].m THEN app_blockCallback(o, sc[k].key, sc[k].content)
            ELSE sc[k].lit])

-----------------------------------------------------------------------------
(* renderPreview, designer.js *)

designer_blockCallback(o, key, content) ==
    LET val == Get(o, Join(Trim(key)))
    IN  IF Truthy(val) /\ Trim(JsString(val)) # <<>> THEN content ELSE <<>>

designer_replaceBlocks(s, o) ==
    LET sc == BlockScan(s, 1)
    IN  ConcatAll([k \in 1..Len(sc) |->
            IF sc[k].m THEN designer_blockCallback(o, sc[k].key, sc[k].content)
            ELSE sc[k].lit])

designer_placeholderCallback(o, key, date) ==
    LET k == Join(Trim(key)) IN
    IF k = "LINE_ITEMS_TABLE" THEN designer_buildLineItemsTable(o)
    ELSE IF k = "PRINT_DATE" THEN Returned(date)
    ELSE Returned(designer_escHtml(StrV(JsString(Nullish(Get(o, k), StrV(<<>>))))))

designer_replacePlaceholders(s, o, date) ==
    LET sc == PlaceholderScan(s, 1)
    IN  Collect([k \in 1..Len(sc) |->
            IF sc[k].m THEN designer_placeholderCallback(o, sc[k].key, date)
            ELSE Returned(sc[k].lit)])

-----------------------------------------------------------------------------
(* DEFAULT_TEMPLATE, one copy in each file.  The box-drawing character     *)
(* U+2550 of the two comment lines is written "=" here.                     *)

designer_DEFAULT_TEMPLATE ==
    << "<!-- === PACKING SLIP (top half) === -->\n<div class=\"slip-half\">\n  <div class=\"slip-title\">Packing Slip</div>\n  <div class=\"slip-header\">\n    <div>\n      <div class=\"slip-order-id\">",
       "{", "{", "OrderID", "}", "}",
       "</div>\n      <h2 class=\"slip-customer\">",
       "{", "{", "Order Name", "}", "}",
       "</h2>\n    </div>\n    <span class=\"slip-count\">",
       "{", "{", "Order Count", "}", "}",
       "</span>\n  </div>\n  <div class=\"slip-meta\">\n    <div><strong>Due Date:</strong>",
       " ",
       "{", "{", "Due Pickup Date", "}", "}",
       "</div>\n    <div><strong>Due Time:</strong>",
       " ",
       "{", "{", "Due Pickup Time", "}", "}",
       "</div>\n    <div><strong>Number:</strong>",
       " ",
       "{", "{", "PhoneNumber", "}", "}",
       "</div>\n  </div>",
       "\n",
       " ", " ",
       "{", "{", "LINE_ITEMS_TABLE", "}", "}",
       "\n",
       "</div>\n\n<hr class=\"slip-divider\">\n\n<!-- === BAKERY SHEET (bottom half) === -->\n<div class=\"slip-half\">\n  <div class=\"slip-title\">Bakery Sheet</div>\n  <div class=\"slip-header\">\n    <div>\n      <div class=\"slip-order-id\">",
       "{", "{", "OrderID", "}", "}",
       "</div>\n      <h2 class=\"slip-customer\">",
       "{", "{", "Order Name", "}", "}",
       "</h2>\n    </div>\n    <span class=\"slip-count\">",
       "{", "{", "Order Count", "}", "}",
       "</span>\n  </div>\n  <div class=\"slip-meta\">\n    <div><strong>Due Date:</strong>",
       " ",
       "{", "{", "Due Pickup Date", "}", "}",
       "</div>\n    <div><strong>Due Time:</strong>",
       " ",
       "{", "{", "Due Pickup Time", "}", "}",
       "</div>\n    <div><strong>Number:</strong>",
       " ",
       "{", "{", "PhoneNumber", "}", "}",
       "</div>\n  </div>",
       "\n",
       " ", " ",
       "{", "{", "LINE_ITEMS_TABLE", "}", "}",
       "\n",
       "</div>" >>

\* app_DEFAULT_TEMPLATE as it would be after a field was renamed in app.js only
app_DEFAULT_TEMPLATE_drifted ==
    [k \in 1..Len(designer_DEFAULT_TEMPLATE) |->
        IF designer_DEFAULT_TEMPLATE[k] = "PhoneNumber" THEN "Phone"
        ELSE designer_DEFAULT_TEMPLATE[k]]

app_DEFAULT_TEMPLATE ==
    << "<!-- === PACKING SLIP (top half) === -->\n<div class=\"slip-half\">\n  <div class=\"slip-title\">Packing Slip</div>\n  <div class=\"slip-header\">\n    <div>\n      <div class=\"slip-order-id\">",
       "{", "{", "OrderID", "}", "}",
       "</div>\n      <h2 class=\"slip-customer\">",
       "{", "{", "Order Name", "}", "}",
       "</h2>\n    </div>\n    <span class=\"slip-count\">",
       "{", "{", "Order Count", "}", "}",
       "</span>\n  </div>\n  <div class=\"slip-meta\">\n    <div><strong>Due Date:</strong>",
       " ",
       "{", "{", "Due Pickup Date", "}", "}",
       "</div>\n    <div><strong>Due Time:</strong>",
       " ",
       "{", "{", "Due Pickup Time", "}", "}",
       "</div>\n    <div><strong>Number:</strong>",
       " ",
       "{", "{", "PhoneNumber", "}", "}",
       "</div>\n  </div>",
       "\n",
       " ", " ",
       "{", "{", "LINE_ITEMS_TABLE", "}", "}",
       "\n",
       "</div>\n\n<hr class=\"slip-divider\">\n\n<!-- === BAKERY SHEET (bottom half) === -->\n<div class=\"slip-half\">\n  <div class=\"slip-title\">Bakery Sheet</div>\n  <div class=\"slip-header\">\n    <div>\n      <div class=\"slip-order-id\">",
       "{", "{", "OrderID", "}", "}",
       "</div>\n      <h2 class=\"slip-customer\">",
       "{", "{", "Order Name", "}", "}",
       "</h2>\n    </div>\n    <span class=\"slip-count\">",
       "{", "{", "Order Count", "}", "}",
       "</span>\n  </div>\n  <div class=\"slip-meta\">\n    <div><strong>Due Date:</strong>",
       " ",
       "{", "{", "Due Pickup Date", "}", "}",
       "</div>\n    <div><strong>Due Time:</strong>",
       " ",
       "{", "{", "Due Pickup Time", "}", "}",
       "</div>\n    <div><strong>Number:</strong>",
       " ",
       "{", "{", "PhoneNumber", "}", "}",
       "</div>\n  </div>",
       "\n",
       " ", " ",
       "{", "{", "LINE_ITEMS_TABLE", "}", "}",
       "\n",
       "</div>" >>

-----------------------------------------------------------------------------
(* Inputs: templates a user can type, order records the server can return *)

Placeholder(key) == <<"{", "{">> \o key \o <<"}", "}">>
OpenTag(name) == <<"{", "{", "#">> \o name \o <<"}", "}">>
CloseTag(name) == <<"{", "{", "/">> \o name \o <<"}", "}">>

\* the pieces a typed template is put together from
Parts ==
    { <<"<">>,
      Placeholder(<<"A">>), Placeholder(<<" ", "A", " ">>), Placeholder(<<"B">>),
      Placeholder(<<"constructor">>),
      Placeholder(<<"LINE_ITEMS_TABLE">>), Placeholder(<<"PRINT_DATE">>),
      OpenTag(<<"A">>), OpenTag(<<"A", " ">>), CloseTag(<<"A">>) }

RECURSIVE TemplatesUpTo(_)
TemplatesUpTo(n) ==
    IF n = 0 THEN {<<>>}
    ELSE LET shorter == TemplatesUpTo(n - 1)
         IN  shorter \cup {t \o p : t \in shorter, p \in Parts}

Templates == TemplatesUpTo(MaxParts)
StoreTemplates == TemplatesUpTo(MaxStoreParts)

\* a value with every character escHtml rewrites
Markup == <<"<", "&", "\"", ">">>

\* values of the order field A
AValues ==
    {Null, StrV(<<>>), StrV(<<" ">>), StrV(Markup), StrV(Placeholder(<<"B">>))}
        \cup {NumV(n) : n \in 0..MaxNum}

CakeItem ==
    ObjV([x \in {"Product Description", "CakeQty", "Writing Notes"} |->
            CASE x = "Product Description" -> StrV(<<"Cake">>)
              [] x = "CakeQty" -> NumV(MaxNum)
              [] OTHER -> StrV(Markup)])

\* values of the order field 'Line Items': not a list, and lists whose
\* entries are a line item, null, or a number
LineItemValues ==
    {StrV(<<"x">>), ListV(<<>>), ListV(<<CakeItem>>), ListV(<<Null>>),
     ListV(<<NumV(MaxNum), CakeItem>>)}

Hi == StrV(<<"h", "i">>)

Orders ==
    {ObjK(<<"B">>, [x \in {"B"} |-> Hi])}
        \cup {ObjK(<<"A", "B">>, [x \in {"A", "B"} |-> IF x = "A" THEN a ELSE Hi]) :
                a \in AValues}
        \cup {ObjK(<<"A", "B">>, [x \in {"A", "B"} |-> IF x = "A" THEN Hi ELSE Null])}
        \cup {ObjK(<<"A", "Line Items">>,
                    [x \in {"A", "Line Items"} |-> IF x = "A" THEN Hi ELSE li]) :
                li \in LineItemValues}

\* new Date().toLocaleDateString() on two days
Dates == {<<"11/2/2026">>, <<"11/3/2026">>}

getSampleOrderFallback ==
    ObjK(<<"_RowNumber", "Order Number", "Customer Name", "Order Date", "Status",
           "Total", "Email", "Phone", "Shipping Address", "Notes", "Line Items">>,
         [x \in {"_RowNumber", "Order Number", "Customer Name", "Order Date", "Status",
                 "Total", "Email", "Phone", "Shipping Address", "Notes", "Line Items"} |->
            CASE x = "_RowNumber" -> NumV(1)
              [] x = "Order Number" -> StrV(<<"1001">>)
              [] x = "Customer Name" -> StrV(<<"Sample Customer">>)
              [] x = "Order Date" -> StrV(<<"2025-03-15">>)
              [] x = "Status" -> StrV(<<"Shipped">>)
              [] x = "Total" -> StrV(<<"$99.00">>)
              [] x = "Email" -> StrV(<<"sample@example.com">>)
              [] x = "Phone" -> StrV(<<"555-0100">>)
              [] x = "Shipping Address" -> StrV(<<"123 Sample St, Anytown, IL 00000">>)
              [] x = "Notes" -> StrV(<<"Sample notes">>)
              [] OTHER -> ListV(<<ObjV([y \in {"Product", "Qty", "Unit Price", "Line Total"} |->
                                CASE y = "Product" -> StrV(<<"Sample Item">>)
                                  [] y = "Qty" -> NumV(1)
                                  [] OTHER -> StrV(<<"$99.00">>)])>>)])

-----------------------------------------------------------------------------
(* Line items the table builders are run on *)

\* the sub-detail fields the builders and the modal read
SubFields == {"Writing Notes", "Color", "Add-Ons", "Line Item Notes", "Flavor"}

\* line items with any of the product fields: null, '' or the field's own
\* name as text, so that the text of the cell tells which field was taken
ProductItems ==
    LET \* the product fields the two builders read
        ProductFields ==
            {"Product Name", "Product", "Item", "Order Details", "Description",
             "Product Description"}
    IN
    UNION {{ObjV([x \in S |-> CASE g[x] = "null" -> Null
                                [] g[x] = "empty" -> StrV(<<>>)
                                [] OTHER -> StrV(<<x>>)]) :
                g \in [S -> {"null", "empty", "text"}]} :
           S \in SUBSET ProductFields}

\* line items with any of the quantity fields: '', a digit string or a number
QtyItems ==
    LET \* the quantity fields the two builders read
        QtyFields == {"Qty", "Quantity", "QTY", "CakeQty"}
    IN
    UNION {{ObjV(g) : g \in [S -> {StrV(<<>>), StrV(<<"12">>)}
                                    \cup {NumV(n) : n \in 0..MaxNum}]} :
           S \in SUBSET QtyFields}

\* line items with any of the sub-detail fields: '', or text that needs
\* escaping followed by the field's own name
SubItems ==
    UNION {{ObjV([x \in S \cup {"Product Description", "Product"} |->
                    CASE x \in {"Product Description", "Product"} -> StrV(<<"Cake">>)
                      [] g[x] = "empty" -> StrV(<<>>)
                      [] OTHER -> StrV(Markup \o <<x>>)]) :
                g \in [S -> {"empty", "text"}]} :
           S \in SUBSET SubFields}

\* a line item named n, in the field names of both pages
ItemNamed(n) ==
    ObjV([x \in {"Product Description", "Product", "CakeQty", "Qty"} |->
            IF x \in {"CakeQty", "Qty"} THEN NumV(1) ELSE StrV(<<n>>)])

\* the entries of a parsed line-item list
RowItems == {ItemNamed("Cake"), ItemNamed("Pie"), Null, NumV(MaxNum)}

RECURSIVE ListsUpTo(_)
ListsUpTo(n) ==
    IF n = 0 THEN {<<>>}
    ELSE LET shorter == ListsUpTo(n - 1)
         IN  shorter \cup {l \o <<e>> : l \in shorter, e \in RowItems}

\* values of 'Line Items' of an order given to a table builder
TableLineItems ==
    {NoValue, Null, StrV(<<"x">>), NumV(MaxNum), ObjV([x \in {"0"} |-> ItemNamed("Cake")])}
        \cup {ListV(l) : l \in ListsUpTo(MaxItems)}
        \cup {ListV(<<i>>) : i \in ProductItems \cup QtyItems \cup SubItems}

TableOrders ==
    {IF li = NoValue THEN ObjK(<<"A">>, [x \in {"A"} |-> Hi])
     ELSE ObjK(<<"A", "Line Items">>,
               [x \in {"A", "Line Items"} |-> IF x = "A" THEN Hi ELSE li]) :
        li \in TableLineItems}

-----------------------------------------------------------------------------
(* The field catalog of the designer: populateFieldsList *)

\* the length the preview text of a field is cut to
PreviewLength == 40

\* the number of characters of a string
RECURSIVE CharLen(_)
CharLen(s) == IF s = <<>> THEN 0 ELSE Len(Head(s)) + CharLen(Tail(s))

\* s.slice(0, n), for a string whose units are single characters from its
\* n-th character on, or that has at most n characters
Slice(s, n) ==
    LET fits == {k \in 0..Len(s) : CharLen(SubSeq(s, 1, k)) <= n}
    IN  SubSeq(s, 1, CHOOSE k \in fits : \A j \in fits : j <= k)

specialFields ==
    << [key |-> "LINE_ITEMS_TABLE", note |-> <<"Renders a table of line items">>],
       [key |-> "PRINT_DATE", note |-> <<"Today's date at print time">>] >>

\* populateFieldsList with the special entries put first
populateFieldsList_specialFirst(sample) ==
    LET o == IF Truthy(sample) THEN sample ELSE getSampleOrderFallback
        keys == SelectSeq(o.keys, LAMBDA k : k # "Line Items")
        orderFields ==
            [i \in 1..Len(keys) |->
                [key |-> keys[i],
                 note |-> Slice(JsString(Nullish(Get(o, keys[i]), StrV(<<>>))),
                                PreviewLength)]]
    IN  specialFields \o orderFields

\* populateFieldsList with the preview text left uncut
populateFieldsList_uncut(sample) ==
    LET o == IF Truthy(sample) THEN sample ELSE getSampleOrderFallback
        keys == SelectSeq(o.keys, LAMBDA k : k # "Line Items")
        orderFields ==
            [i \in 1..Len(keys) |->
                [key |-> keys[i],
                 note |-> JsString(Nullish(Get(o, keys[i]), StrV(<<>>)))]]
    IN  orderFields \o specialFields

\* populateFieldsList: allFields, the entries later written into #fieldsList,
\* for the given value of sampleOrder
populateFieldsList(sample) ==
    LET o == IF Truthy(sample) THEN sample ELSE getSampleOrderFallback
        keys == SelectSeq(o.keys, LAMBDA k : k # "Line Items")
        orderFields ==
            [i \in 1..Len(keys) |->
                [key |-> keys[i],
                 note |-> Slice(JsString(Nullish(Get(o, keys[i]), StrV(<<>>))),
                                PreviewLength)]]
    IN  orderFields \o specialFields

\* a text of n characters, one unit each
TextOfLength(n) == [i \in 1..n |-> Digit[(i % 10) + 1]]

\* the orders the field catalog is built from
CatalogOrders ==
    LET \* values of the fields of a catalogued order
        CatalogValues ==
            {Null, NumV(MaxNum), StrV(Markup),
             StrV(TextOfLength(PreviewLength)), StrV(TextOfLength(PreviewLength + 1))}
        \* the field names of a catalogued order, in the order of the JSON text
        CatalogKeys ==
            { <<>>,
              <<"X", "Y", "Line Items">>,
              <<"Y", "Line Items", "X">>,
              <<"Line Items", "PRINT_DATE", "LINE_ITEMS_TABLE">> }
    IN
    UNION {{ObjK(keys, [x \in {keys[i] : i \in 1..Len(keys)} |->
                          IF x = "Line Items" THEN ListV(<<>>) ELSE g[x]]) :
                g \in [{keys[i] : i \in 1..Len(keys)} \ {"Line Items"} -> CatalogValues]} :
           keys \in CatalogKeys}

\* what fetch('/api/orders') and res.json() can come back with
NoResponse == [kind |-> "none"]
NetworkFailure == [kind |-> "networkFailure"]
HttpError == [kind |-> "httpError"]
HttpOk == [kind |-> "ok"]
ParseFailure == [kind |-> "parseFailure"]
Body(v) == [kind |-> "body", body |-> v]

\* the parsed bodies: an empty array, bodies that are no array, and arrays
\* of orders
Bodies ==
    {ListV(<<>>), Null, ObjV([x \in {"error"} |-> StrV(<<"x">>)])}
        \cup {ListV(<<o>>) : o \in CatalogOrders}
        \cup {ListV(<<o, getSampleOrderFallback>>) : o \in CatalogOrders}

-----------------------------------------------------------------------------
(* The designer page *)

\* the designer page loads: sampleOrder is null again, the field list is
\* empty, initEditor runs editor.setValue(saved || DEFAULT_TEMPLATE) and
\* fetchSampleOrder runs up to its await fetch('/api/orders')
initEditor ==
    /\ pc \in {"idle", "done", "threw"}
    /\ editorValue' = IF Truthy(stored) THEN stored ELSE StrV(designer_DEFAULT_TEMPLATE)
    /\ sampleOrder' = Null
    /\ fetchPc' = "sent"
    /\ response' = NoResponse
    /\ fieldsList' = <<>>
    /\ UNCHANGED <<stored, orders, surface, order, pc, html>>
    /\ UNCHANGED <<appVars, server>>

\* the user types, deletes or inserts a field: the editor holds a new text
EditorInput ==
    /\ pc \in {"idle", "done", "threw"}
    /\ editorValue # Null
    /\ \E t \in StoreTemplates : editorValue' = StrV(t)
    /\ UNCHANGED <<stored, sampleOrder, orders, surface, order, pc, html>>
    /\ UNCHANGED designerVars
    /\ UNCHANGED <<appVars, server>>

\* saveTemplate: localStorage.setItem('orderPrintTemplate', editor.getValue())
saveTemplate ==
    /\ pc \in {"idle", "done", "threw"}
    /\ editorValue # Null
    /\ stored' = editorValue
    /\ UNCHANGED <<editorValue, sampleOrder, orders, surface, order, pc, html>>
    /\ UNCHANGED designerVars
    /\ UNCHANGED <<appVars, server>>

\* resetTemplate: nothing happens unless the user confirms
resetTemplate ==
    /\ pc \in {"idle", "done", "threw"}
    /\ editorValue # Null
    /\ \E confirmed \in BOOLEAN :
          IF confirmed
          THEN /\ stored' = Null
               /\ editorValue' = StrV(designer_DEFAULT_TEMPLATE)
          ELSE UNCHANGED <<stored, editorValue>>
    /\ UNCHANGED <<sampleOrder, orders, surface, order, pc, html>>
    /\ UNCHANGED designerVars
    /\ UNCHANGED <<appVars, server>>

\* renderPreview as it would be without the fallback sample
renderPreview_noFallback ==
    /\ pc \in {"idle", "done", "threw"}
    /\ editorValue # Null
    /\ surface' = "preview"
    /\ order' = sampleOrder
    /\ html' = editorValue.s
    /\ pc' = "cond"
    /\ UNCHANGED <<stored, editorValue, sampleOrder, orders>>
    /\ UNCHANGED designerVars
    /\ UNCHANGED <<appVars, server>>

\* renderPreview, up to the first replace
renderPreview ==
    /\ pc \in {"idle", "done", "threw"}
    /\ editorValue # Null
    /\ surface' = "preview"
    /\ order' = IF sampleOrder # Null THEN sampleOrder ELSE getSampleOrderFallback
    /\ html' = editorValue.s
    /\ pc' = "cond"
    /\ UNCHANGED <<stored, editorValue, sampleOrder, orders>>
    /\ UNCHANGED designerVars
    /\ UNCHANGED <<appVars, server>>

\* renderPreview, the replace of the conditional blocks
previewBlocks ==
    /\ surface = "preview" /\ pc = "cond"
    /\ html' = designer_replaceBlocks(html, order)
    /\ pc' = "subst"
    /\ UNCHANGED <<stored, editorValue, sampleOrder, orders, surface, order>>
    /\ UNCHANGED designerVars
    /\ UNCHANGED <<appVars, server>>

\* renderPreview, the replace of the placeholders; the result goes into
\* previewInner inside designer_wrap
previewPlaceholders ==
    /\ surface = "preview" /\ pc = "subst"
    /\ \E date \in Dates :
          LET r == designer_replacePlaceholders(html, order, date)
          IN  IF r.threw THEN pc' = "threw" /\ html' = html
              ELSE pc' = "done" /\ html' = r.out
    /\ UNCHANGED <<stored, editorValue, sampleOrder, orders, surface, order>>
    /\ UNCHANGED designerVars
    /\ UNCHANGED <<appVars, server>>

\* the catch of fetchSampleOrder
fetchCatch ==
    /\ sampleOrder' = getSampleOrderFallback
    /\ fieldsList' = populateFieldsList(sampleOrder')
    /\ fetchPc' = "done"

\* await fetch('/api/orders') settles: the promise rejects, or it resolves
\* and res.ok is false, or it resolves and res.json() is awaited
fetchResponds ==
    /\ pc \in {"idle", "done", "threw"}
    /\ fetchPc = "sent"
    /\ \E r \in {NetworkFailure, HttpError, HttpOk} :
          /\ response' = r
          /\ IF r = HttpOk
             THEN fetchPc' = "json" /\ UNCHANGED <<sampleOrder, fieldsList>>
             ELSE fetchCatch
    /\ UNCHANGED <<stored, editorValue, orders, surface, order, pc, html>>
    /\ UNCHANGED <<appVars, server>>

\* await res.json() settles: the promise rejects, or the body is there and
\* the rest of the try block runs
fetchParsed ==
    /\ pc \in {"idle", "done", "threw"}
    /\ fetchPc = "json"
    /\ \E r \in {ParseFailure} \cup {Body(v) : v \in Bodies} :
          /\ response' = r
          /\ IF r = ParseFailure THEN fetchCatch
             ELSE /\ sampleOrder' = IF r.body.t = "list" /\ Len(r.body.items) > 0
                                    THEN r.body.items[1] ELSE sampleOrder
                  /\ fieldsList' = populateFieldsList(sampleOrder')
                  /\ fetchPc' = "done"
    /\ UNCHANGED <<stored, editorValue, orders, surface, order, pc, html>>
    /\ UNCHANGED <<appVars, server>>

designer_wrap(body) ==
    <<"<div class=\"print-order\" style=\"padding:0;\">">> \o body \o <<"</div>">>

-----------------------------------------------------------------------------
(* The app page *)

\* getTemplate: localStorage.getItem('orderPrintTemplate') || DEFAULT_TEMPLATE
getTemplate == IF Truthy(stored) THEN stored.s ELSE app_DEFAULT_TEMPLATE

\* renderOrderForPrint(order), up to the first replace
renderOrderForPrint ==
    /\ pc \in {"idle", "done", "threw"}
    /\ \E k \in 1..Len(orders) : order' = orders[k]
    /\ surface' = "print"
    /\ html' = getTemplate
    /\ pc' = "cond"
    /\ UNCHANGED <<stored, editorValue, sampleOrder, orders>>
    /\ UNCHANGED designerVars
    /\ UNCHANGED <<appVars, server>>

\* renderOrderForPrint, the replace of the conditional blocks
printBlocks ==
    /\ surface = "print" /\ pc = "cond"
    /\ html' = app_replaceBlocks(html, order)
    /\ pc' = "subst"
    /\ UNCHANGED <<stored, editorValue, sampleOrder, orders, surface, order>>
    /\ UNCHANGED designerVars
    /\ UNCHANGED <<appVars, server>>

\* renderOrderForPrint, the replace of the placeholders; the function
\* returns app_wrap of the result
printPlaceholders ==
    /\ surface = "print" /\ pc = "subst"
    /\ \E date \in Dates :
          LET r == app_replacePlaceholders(html, order, date)
          IN  IF r.threw THEN pc' = "threw" /\ html' = html
              ELSE pc' = "done" /\ html' = r.out
    /\ UNCHANGED <<stored, editorValue, sampleOrder, orders, surface, order>>
    /\ UNCHANGED designerVars
    /\ UNCHANGED <<appVars, server>>

app_wrap(body) == <<"<div class=\"print-order\">">> \o body \o <<"</div>">>

-----------------------------------------------------------------------------
(* The order list of the app: filters, sorting, selection *)

\* String(o._RowNumber), the id of an order
IdOf(o) == Join(JsString(Get(o, "_RowNumber")))

IdsOf(os) == {IdOf(os[i]) : i \in 1..Len(os)}

\* a <= b for two strings, as JavaScript compares them: by code units
RECURSIVE StrLeq(_, _)
StrLeq(a, b) ==
    LET \* the code unit of a character of a date string
        CharCode(c) ==
            CASE c = "-" -> 45
              [] c = "/" -> 47
              [] OTHER -> 47 + (CHOOSE i \in 1..10 : Digit[i] = c)
    IN  IF a = <<>> THEN TRUE
        ELSE IF b = <<>> THEN FALSE
        ELSE IF Head(a) = Head(b) THEN StrLeq(Tail(a), Tail(b))
        ELSE CharCode(Head(a)) < CharCode(Head(b))

\* toISODate: MM/DD/YYYY becomes YYYY-MM-DD, anything else stays as it is
toISODate(s) ==
    LET IsDigit(c) == \E i \in 1..10 : Digit[i] = c
        \* x.padStart(2, '0')
        PadStart2(x) == IF Len(x) < 2 THEN <<"0">> \o x ELSE x
        parses == {ab \in (1..2) \X (1..2) :
                      /\ Len(s) = ab[1] + ab[2] + 6
                      /\ s[ab[1] + 1] = "/"
                      /\ s[ab[1] + ab[2] + 2] = "/"
                      /\ \A i \in 1..Len(s) :
                            i \notin {ab[1] + 1, ab[1] + ab[2] + 2} => IsDigit(s[i])}
    IN  IF parses = {} THEN s
        ELSE LET ab == CHOOSE x \in parses : TRUE
                 m1 == SubSeq(s, 1, ab[1])
                 m2 == SubSeq(s, ab[1] + 2, ab[1] + ab[2] + 1)
                 m3 == SubSeq(s, ab[1] + ab[2] + 3, Len(s))
             IN  m3 \o <<"-">> \o PadStart2(m1) \o <<"-">> \o PadStart2(m2)

\* String.prototype.toLowerCase, character by character
ToLowerCase(s) ==
    LET UpperCase ==
            <<"A", "B", "C", "D", "E", "F", "G", "H", "I", "J", "K", "L", "M",
              "N", "O", "P", "Q", "R", "S", "T", "U", "V", "W", "X", "Y", "Z">>
        LowerCase ==
            <<"a", "b", "c", "d", "e", "f", "g", "h", "i", "j", "k", "l", "m",
              "n", "o", "p", "q", "r", "s", "t", "u", "v", "w", "x", "y", "z">>
    IN
    [k \in 1..Len(s) |->
        IF \E i \in 1..26 : UpperCase[i] = s[k]
        THEN LowerCase[CHOOSE i \in 1..26 : UpperCase[i] = s[k]]
        ELSE s[k]]

\* LOCAL_DELIVERY_TYPES
LOCAL_DELIVERY_TYPES == {"Delivery", "Local Delivery Order"}

\* the filter inputs as the page loads: every input empty and enabled, the
\* chip off
NoFilters ==
    [dateFrom |-> <<>>, dateTo |-> <<>>, orderDateFrom |-> <<>>, orderDateTo |-> <<>>,
     status |-> <<>>, orderType |-> <<>>, chipActive |-> FALSE, customer |-> <<>>,
     pickupDisabled |-> FALSE, orderDisabled |-> FALSE]

\* date groups that never disable each other
syncDateGroupExclusion_none(f) == f

\* syncDateGroupExclusion: a group with a value disables the inputs of the other
syncDateGroupExclusion(f) ==
    [f EXCEPT !.orderDisabled = f.dateFrom # <<>> \/ f.dateTo # <<>>,
              !.pickupDisabled = f.orderDateFrom # <<>> \/ f.orderDateTo # <<>>]

\* the callback of allOrders.filter in applyFilters, for the inputs f
MatchesFilters(o, f) ==
    LET \* String.prototype.includes
        Includes(s, q) == \E i \in 1..(Len(s) + 1) : StartsWithAt(s, i, q)
        \* (!from || d >= from) && (!to || d <= to)
        InRange(d, from, to) ==
            /\ from = <<>> \/ StrLeq(from, d)
            /\ to = <<>> \/ StrLeq(d, to)
        name == ToLowerCase(JsString(
                    OrElse(Get(o, "Order Name"),
                    OrElse(Get(o, "Customer Name"), StrV(<<>>)))))
        customerQ == Trim(ToLowerCase(f.customer))
        usePickup == f.dateFrom # <<>> \/ f.dateTo # <<>>
        useOrder == f.orderDateFrom # <<>> \/ f.orderDateTo # <<>>
        dateMatch ==
            IF usePickup
            THEN InRange(toISODate(JsString(OrElse(Get(o, "Due Pickup Date"), StrV(<<>>)))),
                         f.dateFrom, f.dateTo)
            ELSE IF useOrder
            THEN InRange(toISODate(JsString(OrElse(Get(o, "Order Date"), StrV(<<>>)))),
                         f.orderDateFrom, f.orderDateTo)
            ELSE TRUE
        typeMatch ==
            IF f.chipActive
            THEN Get(o, "Order Type").t = "str"
                    /\ Join(Get(o, "Order Type").s) \in LOCAL_DELIVERY_TYPES
            ELSE IF f.orderType # <<>>
            THEN Get(o, "Order Type") = StrV(f.orderType)
            ELSE TRUE
    IN  /\ dateMatch
        /\ typeMatch
        /\ f.status = <<>> \/ Get(o, "Status") = StrV(f.status)
        /\ customerQ = <<>> \/ Includes(name, customerQ)

\* Array.prototype.sort, which is stable: o goes after the last element that
\* does not sort after it
RECURSIVE sortOrders(_, _)
sortOrders(os, asc) ==
    IF os = <<>> THEN <<>>
    ELSE LET \* the key compared by: sortField stays 'Due Pickup Date', whose
             \* values are compared as ISO dates
             SortKey(x) ==
                 toISODate(JsString(Nullish(Get(x, "Due Pickup Date"), StrV(<<>>))))
             \* a comes before b, or is equal to b, in the order of the comparison
             SortsBefore(a, b) ==
                 IF asc THEN StrLeq(SortKey(a), SortKey(b))
                 ELSE StrLeq(SortKey(b), SortKey(a))
             rest == sortOrders(SubSeq(os, 1, Len(os) - 1), asc)
             o == os[Len(os)]
             keep == {k \in 0..Len(rest) :
                         \A j \in (k + 1)..Len(rest) :
                             ~SortsBefore(rest[j], o)}
             at == CHOOSE k \in keep : \A j \in keep : k <= j
         IN  SubSeq(rest, 1, at) \o <<o>> \o SubSeq(rest, at + 1, Len(rest))

\* what #ordersList shows beside cards: the message of showIdle ("idle"), of
\* showLoading ("loading"), of showError ("error") or of renderOrders ("empty")
ListMessage(kind) == [kind |-> kind, ids |-> <<>>]

\* renderOrders: one card per filtered order, or the no-match message
renderOrders(filtered) ==
    IF Len(filtered) = 0 THEN ListMessage("empty")
    ELSE [kind |-> "cards", ids |-> [i \in 1..Len(filtered) |-> IdOf(filtered[i])]]

\* the option values populateStatusFilter and populateOrderTypeFilter build
OptionsOf(all, field) ==
    {JsString(Get(all[i], field)) : i \in {j \in 1..Len(all) : Truthy(Get(all[j], field))}}

\* an order of the app's list
AppOrder(n, status, type, pickup, ordered) ==
    ObjK(<<"_RowNumber", "Order Name", "Status", "Order Type", "Due Pickup Date",
           "Order Date", "Line Items">>,
         [x \in {"_RowNumber", "Order Name", "Status", "Order Type", "Due Pickup Date",
                 "Order Date", "Line Items"} |->
            CASE x = "_RowNumber" -> NumV(n)
              [] x = "Order Name" -> StrV(<<"A", "n", "n">>)
              [] x = "Status" -> StrV(<<status>>)
              [] x = "Order Type" -> StrV(<<type>>)
              [] x = "Due Pickup Date" -> StrV(pickup)
              [] x = "Order Date" -> StrV(ordered)
              [] OTHER -> ListV(<<ItemNamed("Cake")>>)])

\* what the user can put into a date input: nothing, or the day 2026-11-02
DateInputs == {<<>>, <<"2", "0", "2", "6", "-", "1", "1", "-", "0", "2">>}

\* the parsed bodies of GET /api/orders: lists of orders, the error object of
\* a failed upstream call, and null
AppBodies ==
    LET \* picked up on 11/3/2026, ordered on 11/02/2026
        Order1 ==
            AppOrder(1, "Open", "Delivery",
                     <<"1", "1", "/", "3", "/", "2", "0", "2", "6">>,
                     <<"1", "1", "/", "0", "2", "/", "2", "0", "2", "6">>)
        \* picked up on 11/02/2026, ordered on 10/9/2026
        Order2 ==
            AppOrder(2, "Done", "Pickup",
                     <<"1", "1", "/", "0", "2", "/", "2", "0", "2", "6">>,
                     <<"1", "0", "/", "9", "/", "2", "0", "2", "6">>)
        \* picked up on 11/3/2026, ordered on 10/9/2026
        Order3 ==
            AppOrder(3, "Open", "Local Delivery Order",
                     <<"1", "1", "/", "3", "/", "2", "0", "2", "6">>,
                     <<"1", "0", "/", "9", "/", "2", "0", "2", "6">>)
    IN  {ListV(<<Order1, Order2>>), ListV(<<Order2>>), ListV(<<Order3>>), ListV(<<>>),
         ObjV([x \in {"error"} |-> StrV(<<"x">>)]), Null}

\* an action bar whose print button is only ever disabled by the page's HTML
updateActionBar_printEnabled(selected) ==
    [t |-> "set", count |-> Cardinality(selected), printDisabled |-> FALSE]

\* updateActionBar: the count of #actionBarCount and the disabled flag of #printBtn
updateActionBar(selected) ==
    [t |-> "set", count |-> Cardinality(selected), printDisabled |-> selected = {}]

\* allOrders.filter(...) of applyFilters followed by its sortOrders()
FilteredOf(all, f, asc) ==
    sortOrders(SelectSeq(all, LAMBDA o : MatchesFilters(o, f)), asc)

\* applyFilters() once allOrders is all, the inputs hold f and sortAsc is asc:
\* the filtered list, the selection without the ids that left the list, the
\* cards of renderOrders and the action bar of updateActionBar
applyFilters(all, f, asc) ==
    /\ filteredOrders' = FilteredOf(all, f, asc)
    /\ selectedIds' = selectedIds \cap IdsOf(FilteredOf(all, f, asc))
    /\ dom' = [dom EXCEPT !.list = renderOrders(FilteredOf(all, f, asc)),
                          !.actionBar = updateActionBar(selectedIds')]

\* the end of the filter handlers: if (allOrders.length) applyFilters()
applyFiltersIfOrders(f, asc) ==
    IF Len(orders) > 0 THEN applyFilters(orders, f, asc)
    ELSE UNCHANGED <<filteredOrders, selectedIds, dom>>

renderVars == <<stored, editorValue, sampleOrder, surface, order, pc, html>>

\* the change event of #statusSelect: the user picks another option
statusChange ==
    /\ \E v \in dom.statusOptions \cup {<<>>} :
          /\ v # filters.status
          /\ filters' = [filters EXCEPT !.status = v]
          /\ applyFiltersIfOrders(filters', sortAsc)
    /\ UNCHANGED <<orders, sortAsc, modalCurrentId, inFlight, printContainer>>
    /\ UNCHANGED <<renderVars, designerVars, server>>

\* the change event of #orderTypeSelect: a chosen type deactivates the chip
orderTypeChange ==
    /\ \E v \in dom.typeOptions \cup {<<>>} :
          /\ v # filters.orderType
          /\ filters' = [filters EXCEPT !.orderType = v,
                                        !.chipActive = IF v # <<>> THEN FALSE ELSE @]
          /\ applyFiltersIfOrders(filters', sortAsc)
    /\ UNCHANGED <<orders, sortAsc, modalCurrentId, inFlight, printContainer>>
    /\ UNCHANGED <<renderVars, designerVars, server>>

\* a chip that leaves the dropdown as it is
chipClick_keepsDropdown ==
    /\ filters' = [filters EXCEPT !.chipActive = ~filters.chipActive]
    /\ applyFiltersIfOrders(filters', sortAsc)
    /\ UNCHANGED <<orders, sortAsc, modalCurrentId, inFlight, printContainer>>
    /\ UNCHANGED <<renderVars, designerVars, server>>

\* the click on the Local Delivery chip: an activated chip clears the dropdown
chipClick ==
    /\ filters' = [filters EXCEPT !.chipActive = ~filters.chipActive,
                                  !.orderType = IF ~filters.chipActive THEN <<>> ELSE @]
    /\ applyFiltersIfOrders(filters', sortAsc)
    /\ UNCHANGED <<orders, sortAsc, modalCurrentId, inFlight, printContainer>>
    /\ UNCHANGED <<renderVars, designerVars, server>>

\* onPickupChange: the change event of #dateFrom or #dateTo, which a disabled
\* input does not give
onPickupChange ==
    /\ ~filters.pickupDisabled
    /\ \E v \in DateInputs :
          \/ /\ v # filters.dateFrom
             /\ filters' = syncDateGroupExclusion([filters EXCEPT !.dateFrom = v])
          \/ /\ v # filters.dateTo
             /\ filters' = syncDateGroupExclusion([filters EXCEPT !.dateTo = v])
    /\ applyFiltersIfOrders(filters', sortAsc)
    /\ UNCHANGED <<orders, sortAsc, modalCurrentId, inFlight, printContainer>>
    /\ UNCHANGED <<renderVars, designerVars, server>>

\* onOrderDateChange: the change event of #orderDateFrom or #orderDateTo
onOrderDateChange ==
    /\ ~filters.orderDisabled
    /\ \E v \in DateInputs :
          \/ /\ v # filters.orderDateFrom
             /\ filters' = syncDateGroupExclusion([filters EXCEPT !.orderDateFrom = v])
          \/ /\ v # filters.orderDateTo
             /\ filters' = syncDateGroupExclusion([filters EXCEPT !.orderDateTo = v])
    /\ applyFiltersIfOrders(filters', sortAsc)
    /\ UNCHANGED <<orders, sortAsc, modalCurrentId, inFlight, printContainer>>
    /\ UNCHANGED <<renderVars, designerVars, server>>

\* clearFilters: every input is emptied, syncDateGroupExclusion enables both
\* date groups and applyFilters runs
clearFilters ==
    /\ filters' = syncDateGroupExclusion(
                      [NoFilters EXCEPT !.pickupDisabled = filters.pickupDisabled,
                                        !.orderDisabled = filters.orderDisabled])
    /\ applyFilters(orders, filters', sortAsc)
    /\ UNCHANGED <<orders, sortAsc, modalCurrentId, inFlight, printContainer>>
    /\ UNCHANGED <<renderVars, designerVars, server>>

\* the click on #sortDirBtn
sortDirClick ==
    /\ sortAsc' = ~sortAsc
    /\ applyFiltersIfOrders(filters, sortAsc')
    /\ UNCHANGED <<orders, filters, modalCurrentId, inFlight, printContainer>>
    /\ UNCHANGED <<renderVars, designerVars, server>>

\* fetchOrders up to its await fetch('/api/orders'): showLoading() disables the
\* Get Orders button, gives it the loading label and puts the spinner in the list
fetchOrders ==
    /\ inFlight.sent + inFlight.json < MaxFetches
    /\ inFlight' = [inFlight EXCEPT !.sent = @ + 1]
    /\ dom' = [dom EXCEPT !.searchDisabled = TRUE, !.searchLabel = "Loading",
                          !.list = ListMessage("loading")]
    /\ UNCHANGED <<orders, filteredOrders, selectedIds, filters, sortAsc,
                   modalCurrentId, printContainer>>
    /\ UNCHANGED <<renderVars, designerVars, server>>

\* the click on the Get Orders button, which a disabled button does not take
searchBtnClick == ~dom.searchDisabled /\ fetchOrders

\* the click on the Retry button of the error message
retryClick == dom.list.kind = "error" /\ fetchOrders

\* the Enter key in one of the filter inputs
enterKey == fetchOrders

\* the catch and the finally of fetchOrders: showError(err.message), hideLoading(),
\* which enables the Get Orders button and puts its label back
fetchOrdersCatch ==
    /\ dom' = [dom EXCEPT !.list = ListMessage("error"),
                          !.searchDisabled = FALSE, !.searchLabel = "Get Orders"]
    /\ UNCHANGED <<orders, filteredOrders, selectedIds, filters>>

\* await fetch('/api/orders') of one call settles
ordersRespond ==
    /\ inFlight.sent > 0
    /\ \E r \in {NetworkFailure, HttpError, HttpOk} :
          IF r = HttpOk
          THEN /\ inFlight' = [inFlight EXCEPT !.sent = @ - 1, !.json = @ + 1]
               /\ UNCHANGED <<orders, filteredOrders, selectedIds, filters, dom>>
          ELSE /\ inFlight' = [inFlight EXCEPT !.sent = @ - 1]
               /\ fetchOrdersCatch
    /\ UNCHANGED <<sortAsc, modalCurrentId, printContainer>>
    /\ UNCHANGED <<renderVars, designerVars, server>>

\* await res.json() of one call settles and the rest of fetchOrders runs: the
\* new allOrders, the rebuilt options of the two dropdowns (which puts both
\* back on their first, empty option), applyFilters(), hideLoading()
ordersParsed ==
    /\ inFlight.json > 0
    /\ inFlight' = [inFlight EXCEPT !.json = @ - 1]
    /\ \E r \in {ParseFailure} \cup {Body(v) : v \in AppBodies} :
          IF r = ParseFailure \/ Truthy(Get(r.body, "error"))
          THEN fetchOrdersCatch
          ELSE LET all == IF r.body.t = "list" THEN r.body.items ELSE <<>>
                   f == [filters EXCEPT !.status = <<>>, !.orderType = <<>>]
                   filtered == FilteredOf(all, f, sortAsc)
               IN  /\ orders' = all
                   /\ filters' = f
                   /\ filteredOrders' = filtered
                   /\ selectedIds' = selectedIds \cap IdsOf(filtered)
                   /\ dom' = [dom EXCEPT !.statusOptions = OptionsOf(all, "Status"),
                                         !.typeOptions = OptionsOf(all, "Order Type"),
                                         !.list = renderOrders(filtered),
                                         !.actionBar = updateActionBar(selectedIds'),
                                         !.searchDisabled = FALSE,
                                         !.searchLabel = "Get Orders"]
    /\ UNCHANGED <<sortAsc, modalCurrentId, printContainer>>
    /\ UNCHANGED <<renderVars, designerVars, server>>

\* toggleSelect(id), as far as the selection goes
Toggled(id) == IF id \in selectedIds THEN selectedIds \ {id} ELSE selectedIds \cup {id}

\* the ids of the cards in #ordersList
CardIds == {dom.list.ids[i] : i \in 1..Len(dom.list.ids)}

\* a click on the checkbox of a card, or the space key on the card
cardToggle ==
    /\ \E id \in CardIds : selectedIds' = Toggled(id)
    /\ dom' = [dom EXCEPT !.actionBar = updateActionBar(selectedIds')]
    /\ UNCHANGED <<orders, filteredOrders, filters, sortAsc, modalCurrentId,
                   inFlight, printContainer>>
    /\ UNCHANGED <<renderVars, designerVars, server>>

\* the element that has the focus: a card of the list, the close button of
\* the modal, or none of the two ("body")
Focus(kind, id) == [kind |-> kind, id |-> id]

\* a click on the body of a card, or the Enter key on the card: openOrderModal(id)
\* shows the modal and focuses its close button, unless the order is not found
openOrderModal ==
    /\ \E id \in CardIds :
          IF id \in IdsOf(orders)
          THEN /\ modalCurrentId' = StrV(<<id>>)
               /\ dom' = [dom EXCEPT !.modalHidden = FALSE,
                                     !.focus = Focus("modalCloseBtn", "")]
          ELSE UNCHANGED <<modalCurrentId, dom>>
    /\ UNCHANGED <<orders, filteredOrders, selectedIds, filters, sortAsc,
                   inFlight, printContainer>>
    /\ UNCHANGED <<renderVars, designerVars, server>>

\* closeOrderModal: the close button, a click on the backdrop, the Escape key
\* while the modal shows. The modal is hidden, modalCurrentId becomes null, and
\* then the card whose data-id is String(modalCurrentId), that is "null", is
\* looked up and focused; a close button that is hidden loses the focus.
closeOrderModal ==
    /\ ~dom.modalHidden
    /\ modalCurrentId' = Null
    /\ LET id == Join(JsString(modalCurrentId'))
       IN  dom' = [dom EXCEPT
                     !.modalHidden = TRUE,
                     !.focus = IF id \in CardIds THEN Focus("card", id)
                               ELSE IF @.kind = "modalCloseBtn" THEN Focus("body", "")
                               ELSE @]
    /\ UNCHANGED <<orders, filteredOrders, selectedIds, filters, sortAsc,
                   inFlight, printContainer>>
    /\ UNCHANGED <<renderVars, designerVars, server>>

\* selectAll: the click on #selectAllBtn
selectAll ==
    /\ selectedIds' = IF IdsOf(filteredOrders) \subseteq selectedIds
                      THEN selectedIds \ IdsOf(filteredOrders)
                      ELSE selectedIds \cup IdsOf(filteredOrders)
    /\ dom' = [dom EXCEPT !.list = renderOrders(filteredOrders),
                          !.actionBar = updateActionBar(selectedIds')]
    /\ UNCHANGED <<orders, filteredOrders, filters, sortAsc, modalCurrentId,
                   inFlight, printContainer>>
    /\ UNCHANGED <<renderVars, designerVars, server>>

\* the click on #modalSelectBtn: toggleSelect(modalCurrentId), renderOrders()
modalSelect ==
    /\ modalCurrentId # Null
    /\ selectedIds' = Toggled(Join(modalCurrentId.s))
    /\ dom' = [dom EXCEPT !.list = renderOrders(filteredOrders),
                          !.actionBar = updateActionBar(selectedIds')]
    /\ UNCHANGED <<orders, filteredOrders, filters, sortAsc, modalCurrentId,
                   inFlight, printContainer>>
    /\ UNCHANGED <<renderVars, designerVars, server>>

\* renderOrderForPrint(o) as one call
app_renderOrder(o, date) ==
    LET r == app_replacePlaceholders(app_replaceBlocks(getTemplate, o), o, date)
    IN  IF r.threw THEN Thrown ELSE Returned(app_wrap(r.out))

\* the markup of the given orders, one piece per order; the handler ends
\* without touching #printContainer when a render throws
PrintOf(os, date) ==
    LET rs == [i \in 1..Len(os) |-> app_renderOrder(os[i], date)]
    IN  IF \E i \in 1..Len(os) : rs[i].threw THEN printContainer
        ELSE [i \in 1..Len(os) |-> rs[i].out]

\* printSelected: the click on #printBtn
printSelected ==
    /\ LET ordersToprint == SelectSeq(orders, LAMBDA o : IdOf(o) \in selectedIds)
       IN  IF Len(ordersToprint) = 0 THEN UNCHANGED printContainer
           ELSE \E date \in Dates : printContainer' = PrintOf(ordersToprint, date)
    /\ UNCHANGED <<orders, filteredOrders, selectedIds, filters, sortAsc,
                   modalCurrentId, inFlight, dom>>
    /\ UNCHANGED <<renderVars, designerVars, server>>

\* the click on #modalPrintBtn: the order of the modal is printed
modalPrint ==
    /\ modalCurrentId # Null
    /\ LET found == SelectSeq(orders, LAMBDA o : IdOf(o) = Join(modalCurrentId.s))
       IN  IF Len(found) = 0 THEN UNCHANGED printContainer
           ELSE \E date \in Dates : printContainer' = PrintOf(<<found[1]>>, date)
    /\ UNCHANGED <<orders, filteredOrders, selectedIds, filters, sortAsc,
                   modalCurrentId, inFlight, dom>>
    /\ UNCHANGED <<renderVars, designerVars, server>>

-----------------------------------------------------------------------------
(* The server: GET /api/orders (api/orders.js) *)

\* what one Find call gets from the upstream service when its fetch and its
\* response.json() succeed: the HTTP status was a success or not, and the body
Answer(ok, v) == [kind |-> "answer", ok |-> ok, body |-> v]

\* res.status(status).json(v), or res.status(status).end() with v undefined
Reply(status, v) == [kind |-> "reply", status |-> status, body |-> v]

\* appsheetFind: the rows of a table; it throws when fetch or response.json()
\* rejects and when the body has a truthy error member, and never looks at
\* the HTTP status
appsheetFind(a) ==
    IF a.kind \in {"networkFailure", "parseFailure"} THEN Thrown
    ELSE IF Truthy(Get(a.body, "error")) THEN Thrown
    ELSE IF a.body.t = "list" THEN [threw |-> FALSE, out |-> a.body]
    ELSE [threw |-> FALSE, out |-> Nullish(Get(a.body, "rows"), ListV(<<>>))]

\* the handler of GET /api/orders for the request req: the two tables are
\* fetched, the line items are grouped by String(item['OrderID'] || '') in an
\* object literal, and every order is copied with its group as 'Line Items'
api_orders(req) ==
    LET failed == Reply(500, ObjV([x \in {"error"} |-> StrV(<<"message">>)]))
        o == appsheetFind(req.orders)
        i == appsheetFind(req.items)
        key(x) == JsString(OrElse(Get(x, "OrderID"), StrV(<<>>)))
        \* itemsByOrder[k] of the finished join, for a key no item has: undefined,
        \* or what the object literal inherits under that name
        groupOf(k) ==
            LET its == i.out.items
                group == SelectSeq(its, LAMBDA x : k # <<>> /\ key(x) = k)
            IN  IF group # <<>> THEN ListV(group) ELSE Get(ObjV(<<>>), Join(k))
        \* { ...row, 'Line Items': itemsByOrder[key] || [] } as JSON.stringify
        \* writes it, which leaves out a member whose value is a function
        withItems(row) ==
            LET list == OrElse(groupOf(key(row)), ListV(<<>>))
                own == IF row.t = "obj" THEN row.keys ELSE <<>>
                keys == IF list.t # "list"
                        THEN SelectSeq(own, LAMBDA x : x # "Line Items")
                        ELSE IF \E n \in 1..Len(own) : own[n] = "Line Items" THEN own
                        ELSE Append(own, "Line Items")
            IN  ObjK(keys, [x \in {keys[n] : n \in 1..Len(keys)} |->
                              IF x = "Line Items" THEN list ELSE row.f[x]])
    IN  IF req.method = "OPTIONS" THEN Reply(200, NoValue)
        ELSE IF req.method # "GET"
        THEN Reply(405, ObjV([x \in {"error"} |-> StrV(<<"Method not allowed">>)]))
        ELSE IF o.threw \/ i.threw THEN failed
        \* forEach or map of a value that is no array
        ELSE IF o.out.t # "list" \/ i.out.t # "list" THEN failed
        \* item['OrderID'] of a null row, order['OrderID'] of a null row
        ELSE IF \/ \E n \in 1..Len(i.out.items) : ReadThrows(i.out.items[n])
                \/ \E n \in 1..Len(o.out.items) : ReadThrows(o.out.items[n])
        THEN failed
        \* push of a value the object literal inherits under the key of an item
        ELSE IF \E n \in 1..Len(i.out.items) :
                    Truthy(Get(ObjV(<<>>), Join(key(i.out.items[n]))))
        THEN failed
        ELSE Reply(200, ListV([n \in 1..Len(o.out.items) |-> withItems(o.out.items[n])]))

\* the OrderIDs of the rows of a table of at most MaxRows rows, row by row
RowIdLists ==
    LET \* the OrderID values of the rows: empty, "1" as text and as a number, "2"
        RowIds == {StrV(<<>>), StrV(<<"1">>), NumV(1), StrV(<<"2">>)}
    IN  UNION {[1..len -> RowIds] : len \in 0..MaxRows}

\* what a Find call can come back with for a table: the fetch fails, the body
\* is no JSON, the service answers an error status with a body that has an
\* error member or has none, or it answers the rows, bare or in a rows member
AnswersOf(tables) ==
    {NetworkFailure, ParseFailure,
     Answer(FALSE, ObjV([x \in {"error"} |-> StrV(<<"x">>)])),
     Answer(FALSE, ObjV([x \in {"title"} |-> StrV(<<"Bad Request">>)]))}
        \cup {Answer(TRUE, ListV(t)) : t \in tables}
        \cup {Answer(TRUE, ObjV([x \in {"rows"} |-> ListV(t)])) :
                 t \in {u \in tables : Len(u) = 1}}

\* the server handles the request and answers it
handleRequest ==
    /\ server.method # "none"
    /\ response = NoResponse
    /\ response' = api_orders(server)
    /\ UNCHANGED <<stored, editorValue, sampleOrder, orders, surface, order, pc, html>>
    /\ UNCHANGED <<fetchPc, fieldsList, appVars, server>>

\* the app page after a fetch has brought the orders all and before the user
\* has touched anything
AppLoaded(all) ==
    /\ server = [method |-> "none"]
    /\ orders = all
    /\ filteredOrders = FilteredOf(all, NoFilters, TRUE)
    /\ selectedIds = {}
    /\ filters = NoFilters
    /\ sortAsc = TRUE
    /\ modalCurrentId = Null
    /\ inFlight = [sent |-> 0, json |-> 0]
    /\ dom = [list |-> renderOrders(FilteredOf(all, NoFilters, TRUE)),
              searchDisabled |-> FALSE, searchLabel |-> "Get Orders",
              statusOptions |-> OptionsOf(all, "Status"),
              typeOptions |-> OptionsOf(all, "Order Type"),
              actionBar |-> updateActionBar({}),
              modalHidden |-> TRUE, focus |-> Focus("body", "")]
    /\ printContainer = <<>>

-----------------------------------------------------------------------------
(* Specification of one render: the template is typed and saved, the order *)
(* is the one the server returned, and a renderer runs on them.            *)

Init ==
    \E t \in Templates, o \in Orders :
        /\ stored = StrV(t)
        /\ editorValue = StrV(t)
        /\ sampleOrder = o
        /\ AppLoaded(<<o>>)
        /\ surface = "none"
        /\ order = Null
        /\ pc = "idle"
        /\ html = <<>>
        /\ fetchPc = "done"
        /\ response = Body(ListV(<<o>>))
        /\ fieldsList = populateFieldsList(o)

Next ==
    \/ renderOrderForPrint
    \/ printBlocks
    \/ printPlaceholders
    \/ renderPreview
    \/ previewBlocks
    \/ previewPlaceholders

Spec == Init /\ [][Next]_vars

-----------------------------------------------------------------------------
(* Specification of template persistence: both pages from a fresh browser  *)

SampleOrder == ObjK(<<"A", "B">>, [x \in {"A", "B"} |-> Hi])

InitStore ==
    /\ stored = Null
    /\ editorValue = Null
    /\ sampleOrder = Null
    /\ AppLoaded(<<SampleOrder>>)
    /\ surface = "none"
    /\ order = Null
    /\ pc = "idle"
    /\ html = <<>>
    /\ fetchPc = "none"
    /\ response = NoResponse
    /\ fieldsList = <<>>

NextStore ==
    \/ initEditor
    \/ EditorInput
    \/ saveTemplate
    \/ resetTemplate
    \/ renderOrderForPrint
    \/ printBlocks
    \/ printPlaceholders
    \/ renderPreview
    \/ previewBlocks
    \/ previewPlaceholders

SpecStore == InitStore /\ [][NextStore]_vars

-----------------------------------------------------------------------------
(* Specification of the designer page: it loads, its fetch of the sample   *)
(* order comes back in any way at any time, and the Preview tab is clicked *)
(* before, between and after the steps of the fetch.                        *)

NextDesigner ==
    \/ initEditor
    \/ fetchResponds
    \/ fetchParsed
    \/ renderPreview
    \/ previewBlocks
    \/ previewPlaceholders

SpecDesigner == InitStore /\ [][NextDesigner]_vars

-----------------------------------------------------------------------------
(* Specification of the order list of the app: the page loads with a       *)
(* template stored that prints the row number of an order; orders are      *)
(* fetched, filtered, sorted, selected, opened in the modal and printed.   *)
(* The modal does not trap the focus, so the controls behind it stay       *)
(* within reach of the keyboard while it is open.                          *)

InitApp ==
    /\ stored = StrV(Placeholder(<<"_RowNumber">>))
    /\ editorValue = Null
    /\ sampleOrder = Null
    /\ surface = "none"
    /\ order = Null
    /\ pc = "idle"
    /\ html = <<>>
    /\ fetchPc = "none"
    /\ response = NoResponse
    /\ fieldsList = <<>>
    /\ server = [method |-> "none"]
    /\ orders = <<>>
    /\ filteredOrders = <<>>
    /\ selectedIds = {}
    /\ filters = NoFilters
    /\ sortAsc = TRUE
    /\ modalCurrentId = Null
    /\ inFlight = [sent |-> 0, json |-> 0]
    \* the action bar is as the page's HTML has it until updateActionBar runs
    /\ dom = [list |-> ListMessage("idle"),
              searchDisabled |-> FALSE, searchLabel |-> "Get Orders",
              statusOptions |-> {}, typeOptions |-> {},
              actionBar |-> [t |-> "html"],
              modalHidden |-> TRUE, focus |-> Focus("body", "")]
    /\ printContainer = <<>>

NextApp ==
    \/ searchBtnClick
    \/ retryClick
    \/ enterKey
    \/ ordersRespond
    \/ ordersParsed
    \/ statusChange
    \/ orderTypeChange
    \/ chipClick
    \/ clearFilters
    \/ sortDirClick
    \/ cardToggle
    \/ openOrderModal
    \/ closeOrderModal
    \/ selectAll
    \/ modalSelect
    \/ printSelected
    \/ modalPrint

SpecApp == InitApp /\ [][NextApp]_vars

-----------------------------------------------------------------------------
(* Specification of the server: a request arrives, the two Find calls come *)
(* back in any of the ways they can, and the handler answers.              *)

InitServer ==
    /\ LET \* the rows of the orders table and of the line-items table
           OrderRow(n, id) ==
               ObjK(<<"_RowNumber", "OrderID">>,
                    [x \in {"_RowNumber", "OrderID"} |->
                        IF x = "OrderID" THEN id ELSE NumV(n)])
           ItemRow(n, id) ==
               ObjV([x \in {"OrderID", "Product Description"} |->
                       IF x = "OrderID" THEN id ELSE StrV(<<Digit[n + 1]>>)])
           OrderTables ==
               {[n \in 1..Len(ids) |-> OrderRow(n, ids[n])] : ids \in RowIdLists}
           ItemTables ==
               {[n \in 1..Len(ids) |-> ItemRow(n, ids[n])] : ids \in RowIdLists}
       IN  \E m \in {"GET", "OPTIONS", "POST"},
              a \in AnswersOf(OrderTables), b \in AnswersOf(ItemTables) :
                server = [method |-> m, orders |-> a, items |-> b]
    /\ stored = Null
    /\ editorValue = Null
    /\ sampleOrder = Null
    /\ surface = "none"
    /\ order = Null
    /\ pc = "idle"
    /\ html = <<>>
    /\ fetchPc = "none"
    /\ response = NoResponse
    /\ fieldsList = <<>>
    /\ orders = <<>>
    /\ filteredOrders = <<>>
    /\ selectedIds = {}
    /\ filters = NoFilters
    /\ sortAsc = TRUE
    /\ modalCurrentId = Null
    /\ inFlight = [sent |-> 0, json |-> 0]
    /\ dom = [list |-> ListMessage("idle"),
              searchDisabled |-> FALSE, searchLabel |-> "Get Orders",
              statusOptions |-> {}, typeOptions |-> {},
              actionBar |-> [t |-> "html"],
              modalHidden |-> TRUE, focus |-> Focus("body", "")]
    /\ printContainer = <<>>

SpecServer == InitServer /\ [][handleRequest]_vars

-----------------------------------------------------------------------------
(* Specification of the filter panel of the app: orders are fetched and    *)
(* the user edits the date inputs, the dropdowns and the chip, clears the  *)
(* filters and reverses the sort direction, in any order.                  *)

NextFilters ==
    \/ searchBtnClick
    \/ ordersRespond
    \/ ordersParsed
    \/ onPickupChange
    \/ onOrderDateChange
    \/ statusChange
    \/ orderTypeChange
    \/ chipClick
    \/ clearFilters
    \/ sortDirClick

SpecFilters == InitApp /\ [][NextFilters]_vars

-----------------------------------------------------------------------------
(* Specification of the line-items table: the template is the table        *)
(* placeholder alone, so the rendered body is what buildLineItemsTable      *)
(* returned.                                                                *)

TableTemplate == Placeholder(<<"LINE_ITEMS_TABLE">>)

InitTable ==
    \E o \in TableOrders :
        /\ stored = StrV(TableTemplate)
        /\ editorValue = StrV(TableTemplate)
        /\ sampleOrder = o
        /\ AppLoaded(<<o>>)
        /\ surface = "none"
        /\ order = Null
        /\ pc = "idle"
        /\ html = <<>>
        /\ fetchPc = "done"
        /\ response = Body(ListV(<<o>>))
        /\ fieldsList = populateFieldsList(o)

SpecTable == InitTable /\ [][Next]_vars

-----------------------------------------------------------------------------
(* Specification of padded placeholders: the template is one placeholder   *)
(* whose key has white space around it.                                     *)

RECURSIVE PadsUpTo(_)
PadsUpTo(n) ==
    IF n = 0 THEN {<<>>}
    ELSE LET shorter == PadsUpTo(n - 1)
         IN  shorter \cup {p \o <<w>> : p \in shorter, w \in {" ", "\t"}}

PadTemplates ==
    LET PadKeys == {"A", "B", "LINE_ITEMS_TABLE", "PRINT_DATE"}
    IN
    {Placeholder(l \o <<k>> \o r) : l \in PadsUpTo(MaxPad), r \in PadsUpTo(MaxPad),
                                     k \in PadKeys}

InitPad ==
    \E t \in PadTemplates, o \in Orders :
        /\ stored = StrV(t)
        /\ editorValue = StrV(t)
        /\ sampleOrder = o
        /\ AppLoaded(<<o>>)
        /\ surface = "none"
        /\ order = Null
        /\ pc = "idle"
        /\ html = <<>>
        /\ fetchPc = "done"
        /\ response = Body(ListV(<<o>>))
        /\ fieldsList = populateFieldsList(o)

SpecPad == InitPad /\ [][Next]_vars

-----------------------------------------------------------------------------
(* Vocabulary of the properties *)

\* the template the running renderer was given: the stored one on the print
\* path, the editor's text on the preview path
GivenTemplate == IF surface = "print" THEN stored.s ELSE editorValue.s

\* the value exists and its display string has non-whitespace content
HasText(v) == v.t \notin {"undef", "null"} /\ Trim(JsString(v)) # <<>>

\* t holds a closing tag of the field A somewhere
HasCloseTagA(t) == \E k \in 1..Len(t) : StartsWithAt(t, k, CloseTag(<<"A">>))

\* the parts that are neither an opening nor a closing tag
PlainParts ==
    { <<"<">>, Placeholder(<<"A">>), Placeholder(<<"B">>),
      Placeholder(<<"LINE_ITEMS_TABLE">>) }

Entities ==
    { <<"&", "a", "m", "p", ";">>, <<"&", "l", "t", ";">>,
      <<"&", "g", "t", ";">>, <<"&", "q", "u", "o", "t", ";">> }

EntityChar(e) ==
    CASE e = <<"&", "a", "m", "p", ";">> -> "&"
      [] e = <<"&", "l", "t", ";">> -> "<"
      [] e = <<"&", "g", "t", ";">> -> ">"
      [] OTHER -> "\""

\* s read back as a browser reads escaped text: each entity is one character
RECURSIVE Unescape(_)
Unescape(s) ==
    IF s = <<>> THEN <<>>
    ELSE LET es == {e \in Entities : StartsWithAt(s, 1, e)} IN
         IF es = {} THEN <<Head(s)>> \o Unescape(Tail(s))
         ELSE LET e == CHOOSE x \in es : TRUE
              IN  <<EntityChar(e)>> \o Unescape(SubSeq(s, Len(e) + 1, Len(s)))

\* s is escaped text: no <, > or " and every & starts an entity
IsEscaped(s) ==
    \A k \in 1..Len(s) :
        /\ s[k] \notin {"<", ">", "\""}
        /\ s[k] = "&" => \E e \in Entities : StartsWithAt(s, k, e)

-----------------------------------------------------------------------------
(* C1: a block {{#A}}c{{/A}} is replaced by its interior c exactly when     *)
(* order[A] exists and its display string has non-whitespace content (the  *)
(* number 0 included), and by the empty string otherwise.                   *)
C1_BlockKeptIffHasText ==
    \A c \in PlainParts :
        (pc = "subst" /\ GivenTemplate = OpenTag(<<"A">>) \o c \o CloseTag(<<"A">>))
            => html = IF HasText(Get(order, "A")) THEN c ELSE <<>>

(* C2: a template that opens a block on A and never closes it renders with *)
(* the opening tag left in the output as literal text.                      *)
C2_UnterminatedBlockLiteral ==
    (pc = "done" /\ StartsWithAt(GivenTemplate, 1, OpenTag(<<"A">>))
                 /\ ~HasCloseTagA(GivenTemplate))
        => StartsWithAt(html, 1, OpenTag(<<"A">>))

(* C3: {{#A }}<{{/A}} is one block on the field A: for a text, null or     *)
(* absent A it renders "<" when A is non-empty and "" otherwise.            *)
C3_TagNamesTrimmed ==
    (pc = "done" /\ GivenTemplate = OpenTag(<<"A", " ">>) \o <<"<">> \o CloseTag(<<"A">>)
                 /\ Get(order, "A").t \in {"undef", "null", "str"})
        => html = IF HasText(Get(order, "A")) THEN <<"<">> ELSE <<>>

(* C4: a placeholder whose key is not reserved and is not a field of the   *)
(* order, or is a field holding null, renders as the empty string and the  *)
(* renderer does not throw.                                                 *)
C4_MissingKeyIsEmpty ==
    \A k \in {"A", "B", "constructor"} :
        (pc \in {"done", "threw"} /\ GivenTemplate = Placeholder(<<k>>)
            /\ (k \notin DOMAIN order.f \/ order.f[k] = Null))
            => pc = "done" /\ html = <<>>

(* C5: the value substituted for {{A}} or {{B}} is escaped exactly once:   *)
(* the substituted text has no <, > or " and no bare &, it reads back as   *)
(* the display string of the value, and the literal text around the        *)
(* placeholder is copied as it is.                                          *)
C5_ValuesEscapedOnce ==
    \A pre \in {<<>>, <<"<">>}, post \in {<<>>, <<"<">>}, k \in {"A", "B"} :
        (pc = "done" /\ GivenTemplate = pre \o Placeholder(<<k>>) \o post)
            => /\ Len(html) >= Len(pre) + Len(post)
               /\ SubSeq(html, 1, Len(pre)) = pre
               /\ SubSeq(html, Len(html) - Len(post) + 1, Len(html)) = post
               /\ LET e == SubSeq(html, Len(pre) + 1, Len(html) - Len(post))
                  IN  /\ IsEscaped(e)
                      /\ Unescape(e) = JsString(Nullish(Get(order, k), StrV(<<>>)))

C5_Witness ==
    /\ pc = "done" /\ surface = "print"
    /\ GivenTemplate = <<"<">> \o Placeholder(<<"A">>)
    /\ Get(order, "A") = StrV(Markup)
    /\ html = <<"<", "&", "l", "t", ";", "&", "a", "m", "p", ";",
                "&", "q", "u", "o", "t", ";", "&", "g", "t", ";">>

\* the conditional replace keeps a block on this value
KeptBy(v) == Truthy(v) /\ Trim(JsString(v)) # <<>>

BlockOnAWithB == OpenTag(<<"A">>) \o Placeholder(<<"B">>) \o CloseTag(<<"A">>)

(* C6: for the template {{#A}}{{B}}{{/A}}, after the conditional pass the  *)
(* text is the untouched placeholder {{B}} when the block is kept and      *)
(* empty when it is dropped; after the placeholder pass it is the value of *)
(* B in the same order when the block is kept ("hi" for B = "hi") and      *)
(* empty when it is dropped.                                                *)
C6_BlocksBeforePlaceholders ==
    GivenTemplate = BlockOnAWithB =>
        /\ pc = "subst" =>
              html = IF KeptBy(Get(order, "A")) THEN Placeholder(<<"B">>) ELSE <<>>
        /\ pc = "done" =>
              html = IF KeptBy(Get(order, "A"))
                     THEN JsString(Nullish(Get(order, "B"), StrV(<<>>)))
                     ELSE <<>>

C6_Witness ==
    /\ pc = "done" /\ surface = "print"
    /\ GivenTemplate = BlockOnAWithB
    /\ KeptBy(Get(order, "A"))
    /\ Get(order, "B") = Hi
    /\ html = <<"h", "i">>

(* C7: the renderer never throws, whatever the template and the order.     *)
C7_NeverThrows == pc # "threw"

(* C8: with the empty string as the template, the rendered body is the     *)
(* empty string, on the print path and on the preview path.                *)
C8_EmptyTemplateEmptyBody ==
    (pc = "done" /\ GivenTemplate = <<>>) => html = <<>>

(* C9: the print path starts from the last saved string whenever a value   *)
(* is stored, the empty string included, and from the built-in default     *)
(* template only when nothing is stored.                                    *)
C9_StoredTemplateUsed ==
    (surface = "print" /\ pc = "cond")
        => html = IF stored # Null THEN stored.s ELSE app_DEFAULT_TEMPLATE

(* C10: with nothing stored, the print path starts from the very string    *)
(* the designer ships as its default, and a preview of the untouched       *)
(* default in the editor starts from the very string the app ships.        *)
C10_DefaultsAgree ==
    stored = Null =>
        /\ (surface = "print" /\ pc = "cond")
              => Join(html) = Join(designer_DEFAULT_TEMPLATE)
        /\ (surface = "preview" /\ pc = "cond"
                /\ editorValue = StrV(designer_DEFAULT_TEMPLATE))
              => Join(html) = Join(app_DEFAULT_TEMPLATE)

C10_Witness ==
    /\ stored = Null
    /\ editorValue = StrV(designer_DEFAULT_TEMPLATE)
    /\ surface = "print" /\ pc = "cond"
    /\ html = app_DEFAULT_TEMPLATE

-----------------------------------------------------------------------------
(* Vocabulary of the table properties *)

\* a renderer has run to its end on the template of the table specification
TableRun == pc \in {"done", "threw"} /\ GivenTemplate = TableTemplate

LineItemsOf == Get(order, "Line Items")

NonEmptyList(v) == v.t = "list" /\ Len(v.items) > 0

\* h is a table: it opens with the table head and closes with the table foot
IsTable(h) == Len(h) >= 2 /\ h[1] = TableHead[1] /\ h[Len(h)] = TableFoot[1]

CountOf(s, u) == Cardinality({k \in 1..Len(s) : s[k] = u})

\* the position of the n-th occurrence of the unit u in s
NthPos(s, u, n) ==
    CHOOSE k \in 1..Len(s) : s[k] = u /\ Cardinality({j \in 1..k : s[j] = u}) = n

\* the content of the detail cell and of the quantity cell of row r
DetailCell(h, r) ==
    SubSeq(h, NthPos(h, RowOpen[1], r) + 1, NthPos(h, RowMid[1], r) - 1)
QtyCell(h, r) ==
    SubSeq(h, NthPos(h, RowMid[1], r) + 1, NthPos(h, RowClose[1], r) - 1)

\* the opening of a sub-line with the given label
SubLineOpen(label) == "<div class=\"slip-sub\">" \o label \o ": "
SubLineClose == "</div>"

\* the label each sub-detail field would be shown under
SubLabel(field) ==
    CASE field = "Writing Notes" -> "Writing"
      [] field = "Color" -> "Color"
      [] field = "Add-Ons" -> "Add-Ons"
      [] field = "Line Item Notes" -> "Notes"
      [] OTHER -> "Flavor"

SubOpens == {SubLineOpen(SubLabel(f)) : f \in SubFields}

\* the product text of a detail cell: what stands before its first sub-line
ProductText(cell) ==
    LET P == {k \in 1..Len(cell) : cell[k] \in SubOpens}
    IN  IF P = {} THEN cell ELSE SubSeq(cell, 1, MinOf(P) - 1)

\* the value is present and its display string is not empty
PresentNonEmpty(v) == v.t \notin {"undef", "null"} /\ JsString(v) # <<>>

\* the display string of the first of the candidate fields that is present
\* and non-empty on the item, '' when there is none
FirstPresent(item, cands) ==
    LET idx == {i \in 1..Len(cands) : PresentNonEmpty(Get(item, cands[i]))}
    IN  IF idx = {} THEN <<>> ELSE JsString(Get(item, cands[MinOf(idx)]))

ProductCandidates ==
    IF surface = "print" THEN <<"Product Description">>
    ELSE <<"Product Name", "Product", "Item", "Order Details", "Description">>

QtyCandidates ==
    IF surface = "print" THEN <<"CakeQty">> ELSE <<"Qty", "Quantity", "QTY">>

(* C11: buildLineItemsTable returns the "No line items." message, and no   *)
(* table, exactly when 'Line Items' is absent, not a list or an empty      *)
(* list; for every non-empty list it returns a table.                       *)
C11_MessageIffNoItems ==
    TableRun =>
        /\ pc = "done"
        /\ IF NonEmptyList(LineItemsOf) THEN IsTable(html) ELSE html = NoLineItems

(* C12: for every non-empty list the table has exactly one row per entry,  *)
(* in the order of the list: as many rows as entries, and row r shows the  *)
(* product text of entry r.                                                 *)
C12_OneRowPerItemInOrder ==
    (TableRun /\ NonEmptyList(LineItemsOf)) =>
        /\ pc = "done"
        /\ IsTable(html)
        /\ CountOf(html, RowOpen[1]) = Len(LineItemsOf.items)
        /\ CountOf(html, RowMid[1]) = Len(LineItemsOf.items)
        /\ CountOf(html, RowClose[1]) = Len(LineItemsOf.items)
        /\ \A r \in 1..Len(LineItemsOf.items) :
              Unescape(ProductText(DetailCell(html, r)))
                  = FirstPresent(LineItemsOf.items[r], ProductCandidates)

\* the text of the sub-line of the cell that opens with the unit open
SubLineText(cell, open) ==
    LET p == NthPos(cell, open, 1)
        q == MinOf({k \in p..Len(cell) : cell[k] = SubLineClose})
    IN  SubSeq(cell, p + 1, q - 1)

PrintSubFields == <<"Writing Notes", "Color", "Add-Ons", "Line Item Notes">>

C15_QtyIsFirstCandidate ==
    (pc = "done" /\ GivenTemplate = TableTemplate /\ NonEmptyList(LineItemsOf)) =>
        \A r \in 1..Len(LineItemsOf.items) :
            Unescape(QtyCell(html, r)) = FirstPresent(LineItemsOf.items[r], QtyCandidates)

-----------------------------------------------------------------------------
(* Vocabulary of the designer properties *)

\* the order populateFieldsList reads once the fetch is over
CatalogOrder == IF Truthy(sampleOrder) THEN sampleOrder ELSE getSampleOrderFallback

\* the number of data fields among the first i fields of the catalogued order
DataFieldsUpTo(i) == Cardinality({j \in 1..i : CatalogOrder.keys[j] # "Line Items"})

(* C16: the field catalog lists one entry per field of the order, in the   *)
(* order's iteration order and without 'Line Items', then the synthetic    *)
(* entry LINE_ITEMS_TABLE, then the synthetic entry PRINT_DATE, also when  *)
(* the order has fields of these two names.                                 *)
C16_DataFieldsThenSynthetic ==
    fetchPc = "done" =>
        LET keys == CatalogOrder.keys
            n == DataFieldsUpTo(Len(keys))
        IN  /\ Len(fieldsList) = n + 2
            /\ \A i \in 1..Len(keys) :
                  keys[i] # "Line Items" => fieldsList[DataFieldsUpTo(i)].key = keys[i]
            /\ fieldsList[n + 1] = specialFields[1]
            /\ fieldsList[n + 1].key = "LINE_ITEMS_TABLE"
            /\ fieldsList[n + 2] = specialFields[2]
            /\ fieldsList[n + 2].key = "PRINT_DATE"

\* the catalog of an order that starts with 'Line Items' and has fields named
\* like the two synthetic entries, in the opposite order
C16_Witness ==
    /\ fetchPc = "done"
    /\ Truthy(sampleOrder)
    /\ sampleOrder.keys = <<"Line Items", "PRINT_DATE", "LINE_ITEMS_TABLE">>
    /\ [i \in 1..Len(fieldsList) |-> fieldsList[i].key]
           = <<"PRINT_DATE", "LINE_ITEMS_TABLE", "LINE_ITEMS_TABLE", "PRINT_DATE">>

(* C17: the preview text of every data entry of the catalog is the first   *)
(* 40 characters of the display string of the field's value, the whole     *)
(* string when it is shorter and '' for null, with nothing appended; it    *)
(* never has more than 40 characters.                                       *)
C17_PreviewIsFirst40 ==
    fetchPc = "done" =>
        \A i \in 1..(Len(fieldsList) - 2) :
            LET v == Get(CatalogOrder, fieldsList[i].key)
                full == IF v = Null THEN <<>> ELSE JsString(v)
                note == fieldsList[i].note
            IN  /\ CharLen(note) <= 40
                /\ note = IF CharLen(full) <= 40 THEN full ELSE SubSeq(full, 1, 40)

\* an entry of a value of 41 characters: its preview is the first 40
C17_Witness ==
    /\ fetchPc = "done"
    /\ \E i \in 1..(Len(fieldsList) - 2) :
          /\ Get(CatalogOrder, fieldsList[i].key) = StrV(TextOfLength(41))
          /\ fieldsList[i].note = TextOfLength(40)

\* the fetch is over and brought a non-empty array
FetchedOrders ==
    /\ fetchPc = "done"
    /\ response.kind = "body"
    /\ response.body.t = "list"
    /\ Len(response.body.items) > 0

\* the order a render or a build of the field list is to use
ExpectedSample ==
    IF FetchedOrders THEN response.body.items[1] ELSE getSampleOrderFallback

(* C18: whatever the fetch of the sample order does and whenever the       *)
(* Preview tab is clicked, every preview render and every build of the     *)
(* field list uses a non-null order: the first fetched order once the      *)
(* fetch has brought a non-empty array, the fallback sample otherwise.     *)
C18_NonNullOrderUsed ==
    [][ /\ (pc' = "cond" /\ surface' = "preview")
            => (order' # Null /\ order' = ExpectedSample)
        /\ (fetchPc # "done" /\ fetchPc' = "done")
            => (ExpectedSample' # Null /\ fieldsList' = populateFieldsList(ExpectedSample'))
      ]_vars

\* a preview rendered with the fallback while res.json() is awaited
C18_Witness ==
    /\ fetchPc = "json"
    /\ surface = "preview" /\ pc = "done"
    /\ order = getSampleOrderFallback

-----------------------------------------------------------------------------
\* the key of the one placeholder the given template consists of, as typed
TypedKey == SubSeq(GivenTemplate, 3, Len(GivenTemplate) - 2)

\* what the running page renders the template t to, on the same order
RenderingOf(t, date) ==
    IF surface = "print" THEN app_replacePlaceholders(t, order, date)
    ELSE designer_replacePlaceholders(t, order, date)

(* C19: white space around the key of a placeholder is trimmed before the  *)
(* key is compared with the reserved names and before it is looked up:     *)
(* {{ KEY }} renders as {{KEY}} does, the escaped value of the field KEY,  *)
(* and {{ LINE_ITEMS_TABLE }} and {{ PRINT_DATE }} render the table and    *)
(* the date.                                                                *)
C19_KeyPaddingTrimmed ==
    (pc = "done" /\ GivenTemplate \in PadTemplates) =>
        LET k == Join(Trim(TypedKey))
        IN  /\ \E date \in Dates :
                  html = RenderingOf(Placeholder(<<k>>), date).out
            /\ CASE k = "LINE_ITEMS_TABLE" -> html = NoLineItems \/ IsTable(html)
                 [] k = "PRINT_DATE" -> html \in Dates
                 [] OTHER -> /\ IsEscaped(html)
                             /\ Unescape(html)
                                    = JsString(Nullish(Get(order, k), StrV(<<>>)))

\* the three cases with padding on both sides, on the print page
C19_Witness ==
    /\ pc = "done" /\ surface = "print"
    /\ Len(TypedKey) = 3 /\ TypedKey[1] = " " /\ TypedKey[3] = "\t"
    /\ \/ TypedKey[2] = "A" /\ Get(order, "A") = StrV(Markup) /\ Unescape(html) = Markup
       \/ TypedKey[2] = "LINE_ITEMS_TABLE" /\ IsTable(html)
       \/ TypedKey[2] = "PRINT_DATE" /\ html \in Dates

-----------------------------------------------------------------------------
\* the ids of the orders whose markup is in #printContainer, for the stored
\* template {{_RowNumber}}
PrintedIds(container) == {container[i][2] : i \in 1..Len(container)}

(* C20: after every UI operation the selected ids are ids of orders of the *)
(* current filtered list, and every operation that prints puts only        *)
(* orders of the current filtered list into the print container.           *)
C20_SelectionWithinFiltered ==
    [][ /\ selectedIds' \subseteq IdsOf(filteredOrders')
        /\ printContainer' # printContainer
              => PrintedIds(printContainer') \subseteq IdsOf(filteredOrders')
      ]_vars

-----------------------------------------------------------------------------
-----------------------------------------------------------------------------
\* a date group holds a value
PickupActive == filters.dateFrom # <<>> \/ filters.dateTo # <<>>
OrderActive == filters.orderDateFrom # <<>> \/ filters.orderDateTo # <<>>

\* the date d (MM/DD/YYYY) lies within the range of two date inputs
WithinDates(d, from, to) ==
    /\ from = <<>> \/ StrLeq(from, toISODate(d))
    /\ to = <<>> \/ StrLeq(toISODate(d), to)

\* the filter inputs without the four dates
WithoutDates(f) ==
    [f EXCEPT !.dateFrom = <<>>, !.dateTo = <<>>,
              !.orderDateFrom = <<>>, !.orderDateTo = <<>>]

(* C22: at most one of the two date groups holds a value; while a group    *)
(* holds a value the inputs of the other group are disabled; and the       *)
(* filtered list is cut by the date range of the active group alone: the   *)
(* pickup date when the pickup group is active, the order date when the    *)
(* order-date group is active, no date otherwise.                          *)
C22_DateGroupsExclusive ==
    /\ ~(PickupActive /\ OrderActive)
    /\ PickupActive => filters.orderDisabled
    /\ OrderActive => filters.pickupDisabled
    /\ IdsOf(filteredOrders) =
          {IdOf(orders[i]) : i \in {j \in 1..Len(orders) :
              /\ MatchesFilters(orders[j], WithoutDates(filters))
              /\ PickupActive =>
                    WithinDates(Get(orders[j], "Due Pickup Date").s,
                                filters.dateFrom, filters.dateTo)
              /\ OrderActive =>
                    WithinDates(Get(orders[j], "Order Date").s,
                                filters.orderDateFrom, filters.orderDateTo)}}

\* of two fetched orders the pickup range keeps the one picked up in time,
\* or the order-date range keeps the one ordered late enough
C22_Witness ==
    /\ Len(orders) = 2
    /\ \/ /\ filters.dateTo # <<>> /\ filters.orderDisabled
          /\ IdsOf(filteredOrders) = {"2"}
       \/ /\ filters.orderDateFrom # <<>> /\ filters.pickupDisabled
          /\ IdsOf(filteredOrders) = {"1"}

-----------------------------------------------------------------------------
\* the Order Type of an order is one of the two local-delivery types
IsLocalDelivery(o) ==
    \/ Get(o, "Order Type") = StrV(<<"Delivery">>)
    \/ Get(o, "Order Type") = StrV(<<"Local Delivery Order">>)

(* C23: the chip is never active while the order-type dropdown holds a     *)
(* type: the step that activates the chip leaves the dropdown empty and    *)
(* the step that puts a type into the dropdown leaves the chip off; and    *)
(* while the chip is active, of the orders that pass the other criteria    *)
(* the filtered list keeps exactly those of type 'Delivery' or 'Local      *)
(* Delivery Order'.                                                        *)
C23_ChipAndDropdownAgree ==
    [][ /\ ~(filters'.chipActive /\ filters'.orderType # <<>>)
        /\ filters'.chipActive /\ ~filters.chipActive => filters'.orderType = <<>>
        /\ filters'.orderType # <<>> /\ filters'.orderType # filters.orderType
              => ~filters'.chipActive
        /\ filters'.chipActive =>
              IdsOf(filteredOrders') =
                {IdOf(orders'[i]) : i \in {j \in 1..Len(orders') :
                    /\ MatchesFilters(orders'[j], [filters' EXCEPT !.chipActive = FALSE])
                    /\ IsLocalDelivery(orders'[j])}}
      ]_vars

\* the chip is on, the dropdown is empty, and of a delivery and a pickup
\* order the list keeps the delivery, or it keeps the local delivery order
C23_Witness ==
    /\ filters.chipActive /\ filters.orderType = <<>>
    /\ \/ IdsOf(orders) = {"1", "2"} /\ IdsOf(filteredOrders) = {"1"}
       \/ IdsOf(orders) = {"3"} /\ IdsOf(filteredOrders) = {"3"}

-----------------------------------------------------------------------------
\* the calls of fetchOrders that have not reached their finally
FetchesInFlight == inFlight.sent + inFlight.json

(* C24: at most one order fetch is in flight at a time, and while one is   *)
(* in flight the Get Orders button is disabled and shows the loading       *)
(* label, so that the button is enabled only when no fetch is in flight.   *)
C24_OneFetchButtonDisabled ==
    /\ FetchesInFlight <= 1
    /\ FetchesInFlight > 0 => dom.searchDisabled /\ dom.searchLabel = "Loading"

-----------------------------------------------------------------------------
(* C25: when the modal is closed it is hidden, the current modal id is     *)
(* cleared, and the focus goes to the card of the order that was open in   *)
(* the modal, when the list has a card of that order.                      *)
C25_CloseReturnsFocus ==
    [][ closeOrderModal =>
          /\ dom'.modalHidden
          /\ modalCurrentId' = Null
          /\ Join(modalCurrentId.s) \in CardIds
                => dom'.focus = Focus("card", Join(modalCurrentId.s))
      ]_vars

-----------------------------------------------------------------------------
\* a Find call failed: its fetch or its parse, an error status, an error body
FindFailed(a) ==
    \/ a.kind \in {"networkFailure", "parseFailure"}
    \/ ~a.ok
    \/ a.body.t = "obj" /\ "error" \in DOMAIN a.body.f

\* the rows a Find call fetched
FetchedRows(a) == IF a.body.t = "list" THEN a.body.items ELSE a.body.f["rows"].items

\* the OrderID of a row as a string
OrderIdText(row) == IF row.f["OrderID"].t = "num" THEN NumToString(row.f["OrderID"].n)
                    ELSE row.f["OrderID"].s

(* C26: the answer to GET /api/orders. When a Find call failed it is a 500 *)
(* with an error message and no list. Otherwise it is a 200 with one       *)
(* record per fetched order, in the fetched order, that has the fields of  *)
(* the order and a 'Line Items' list of exactly the fetched line items     *)
(* whose OrderID, as a string, is the non-empty OrderID of the order, in   *)
(* their fetched order.                                                    *)
C26_OrdersJoinedOrError ==
    server.method = "GET" /\ response # NoResponse =>
        IF FindFailed(server.orders) \/ FindFailed(server.items)
        THEN /\ response.status = 500
             /\ response.body.t = "obj"
             /\ Truthy(Get(response.body, "error"))
        ELSE LET fetched == FetchedRows(server.orders)
                 items == FetchedRows(server.items)
                 sent == response.body.items
             IN  /\ response.status = 200
                 /\ response.body.t = "list"
                 /\ Len(sent) = Len(fetched)
                 /\ \A n \in 1..Len(fetched) :
                       /\ \A x \in DOMAIN fetched[n].f : sent[n].f[x] = fetched[n].f[x]
                       /\ sent[n].f["Line Items"] =
                             ListV(SelectSeq(items, LAMBDA x :
                                     /\ OrderIdText(x) # <<>>
                                     /\ OrderIdText(x) = OrderIdText(fetched[n])))

-----------------------------------------------------------------------------
\* the template t names the line-items table
UsesTable(t) == \E n \in 1..Len(t) : t[n] = "LINE_ITEMS_TABLE"

\* what the renderer of the other page makes of the same order on the day
\* date: the print page starts from getTemplate(), the preview from the text
\* of the editor
OtherRendering(date) ==
    IF surface = "print"
    THEN designer_replacePlaceholders(
             designer_replaceBlocks(GivenTemplate, order), order, date)
    ELSE app_replacePlaceholders(app_replaceBlocks(getTemplate, order), order, date)

(* C27: for a template that does not use the line-items table, stored and  *)
(* in the editor alike, the preview and the print page render every order  *)
(* to the same markup inside their wrappers, up to the day of PRINT_DATE.  *)
C27_PreviewEqualsPrint ==
    (pc \in {"done", "threw"} /\ ~UsesTable(GivenTemplate)) =>
        \E date \in Dates :
            /\ OtherRendering(date).threw <=> pc = "threw"
            /\ pc = "done" => OtherRendering(date).out = html

====
